---- MODULE Spec2Model ----
(***************************************************************************)
(* SutraPulse account-abstraction contracts: EntryPoint (batch processor), *)
(* SmartWallet (account), SmartWalletFactory and Paymaster (sponsor).      *)
(* A transaction is one atomic step: a revert restores every contract's    *)
(* storage, every balance and discards the events of the transaction.      *)
(***************************************************************************)
EXTENDS Integers, Sequences, FiniteSets, TLC

(***************************************************************************)
(* Identities                                                              *)
(***************************************************************************)
ZERO == "0x0"          \* address(0)
O1 == "o1"             \* externally owned account: owner of the wallet
O2 == "o2"             \* externally owned account: a second key holder
EP == "entryPoint"     \* the deployed EntryPoint
PM == "paymaster"      \* the deployed Paymaster
FACTORY == "factory"   \* the deployed SmartWalletFactory (accepts no ether)
W1 == "w1"             \* CREATE2 address of the wallet of (O1, EP, SALT)
W2 == "w2"             \* CREATE2 address of the wallet of (O2, EP, SALT)
W3 == "w3"             \* CREATE2 address of the wallet of (O1, EP, SALT2)
W4 == "w4"             \* CREATE2 address of the wallet of (O2, EP, SALT2)
TOKEN == "token"       \* an ERC20 token contract
GARBAGE == "0x?"       \* what ecrecover yields for a signature over other data
SALT == "salt0"
SALT2 == "salt1"

Addr == {ZERO, O1, O2, EP, PM, FACTORY, W1, W2, W3, W4, TOKEN, GARBAGE}
Wallets == {W1, W2, W3, W4}
\* the addresses of the wallets of the salt SALT
FirstWallets == {W1, W2}
Tokens == {TOKEN}
EOAs == {O1, O2}

\* native funds a funding account holds after construction
InitialFunds == 4
\* cap of a wallet's execution counter in the model
MaxNonce == 2
\* tokens a token holder has after construction
InitialTokens == 3
\* largest gas cost and prefund handed to the Paymaster
MaxGasCost == 3
\* longest batch of resubmitted operations
MaxReplayBatch == 2
\* executions the observer's index holds at most
MaxConsumed == 3
\* fields in which two hashed operations differ from the base operation
MaxChanged == 2
\* the converted deposit a depositor of tokens is followed up to
MaxCredit == 4

(***************************************************************************)
(* State                                                                   *)
(***************************************************************************)
VARIABLES
    deposits,              \* EntryPoint.deposits
    balance,               \* native balance of every address
    code,                  \* addresses with code.length > 0
    owner,                 \* SmartWallet.owner, per wallet
    entryPoint,            \* SmartWallet.entryPoint, per wallet
    nonce,                 \* SmartWallet.nonce, per wallet
    authorizedSigners,     \* SmartWallet.authorizedSigners, per wallet
    whitelistedFunctions,  \* SmartWallet.whitelistedFunctions, per wallet
    walletWhitelisted,     \* the sponsor's whitelist of sponsored accounts
    supportedTokens,       \* Paymaster.supportedTokens
    tokenExchangeRate,     \* Paymaster.tokenExchangeRate, per token
    userDeposits,          \* Paymaster.userDeposits, per user
    userTokenBalances,     \* Paymaster.userTokenBalances, per user and token
    tokenBalanceOf,        \* ERC20 balanceOf, per token and holder
    consumed,              \* an observer's index of the operations executed
    last                   \* receipt of the latest transaction

vars == <<deposits, balance, code, owner, entryPoint, nonce, authorizedSigners,
          whitelistedFunctions, walletWhitelisted, supportedTokens,
          tokenExchangeRate, userDeposits, userTokenBalances, tokenBalanceOf,
          consumed, last>>

\* everything a revert restores
chain == <<deposits, balance, code, owner, entryPoint, nonce, authorizedSigners,
           whitelistedFunctions, walletWhitelisted, supportedTokens,
           tokenExchangeRate, userDeposits, userTokenBalances, tokenBalanceOf>>

(***************************************************************************)
(* UserOperation and its hash                                              *)
(***************************************************************************)
CHAINID == "chain1"

\* bytes paymasterAndData: its length and the address in its first 20 bytes
NoPaymasterData == [len |-> 0, first20 |-> ZERO]
PaymasterData(a) == [len |-> 20, first20 |-> a]
\* 19 bytes: padded to 20 they are the address of nobody
ShortPaymasterData == [len |-> 19, first20 |-> GARBAGE]

\* bytes callData: an ABI-encoded SmartWallet.execute(target, value, data)
ExecuteCall(target, value, data) ==
    [fn |-> "execute", target |-> target, value |-> value, data |-> data]

\* the call data of SmartWallet.executeBatch(targets, values, datas)
ExecuteBatchCall(targets, values, datas) ==
    [fn |-> "executeBatch", targets |-> targets, values |-> values, datas |-> datas]

\* the hash without block.chainid
getUserOpHash_withoutChainId(chainid, userOp) ==
    [sender |-> userOp.sender,
     nonce |-> userOp.nonce,
     initCode |-> userOp.initCode,
     callData |-> userOp.callData,
     callGasLimit |-> userOp.callGasLimit,
     verificationGasLimit |-> userOp.verificationGasLimit,
     preVerificationGas |-> userOp.preVerificationGas,
     maxFeePerGas |-> userOp.maxFeePerGas,
     maxPriorityFeePerGas |-> userOp.maxPriorityFeePerGas,
     paymasterAndData |-> userOp.paymasterAndData]

\* EntryPoint.getUserOpHash on the chain whose block.chainid is chainid:
\* keccak256 of the encoding of these eleven values, taken as collision-free
getUserOpHashOn(chainid, userOp) ==
    [sender |-> userOp.sender,
     nonce |-> userOp.nonce,
     initCode |-> userOp.initCode,
     callData |-> userOp.callData,
     callGasLimit |-> userOp.callGasLimit,
     verificationGasLimit |-> userOp.verificationGasLimit,
     preVerificationGas |-> userOp.preVerificationGas,
     maxFeePerGas |-> userOp.maxFeePerGas,
     maxPriorityFeePerGas |-> userOp.maxPriorityFeePerGas,
     paymasterAndData |-> userOp.paymasterAndData,
     chainid |-> chainid]

\* EntryPoint.getUserOpHash on the chain of this EntryPoint
getUserOpHash(userOp) == getUserOpHashOn(CHAINID, userOp)

\* ECDSA.toEthSignedMessageHash
toEthSignedMessageHash(h) == [prefix |-> "EthereumSignedMessage32", hash |-> h]

\* a signature made by signer over digest
Sign(signer, digest) == [signer |-> signer, digest |-> digest]

\* ECDSA.recover: the signer when the signature is over this digest
recover(digest, signature) ==
    IF signature.digest = digest THEN signature.signer ELSE GARBAGE

UserOp(sender, callData, paymasterAndData, initCode) ==
    [sender |-> sender,
     nonce |-> 0,
     initCode |-> initCode,
     callData |-> callData,
     callGasLimit |-> 1,
     verificationGasLimit |-> 1,
     preVerificationGas |-> 0,
     maxFeePerGas |-> 1,
     maxPriorityFeePerGas |-> 0,
     paymasterAndData |-> paymasterAndData,
     signature |-> Sign(ZERO, <<>>)]

\* the operation, signed by signer over its own hash
Signed(userOp, signer) ==
    [userOp EXCEPT
        !.signature = Sign(signer, toEthSignedMessageHash(getUserOpHash(userOp)))]

(***************************************************************************)
(* The world a transaction works on: the storage of every contract.        *)
(* entered holds the contracts whose ReentrancyGuard status is ENTERED: no *)
(* contract between two transactions, since every guarded function resets *)
(* the status before it returns and a revert restores it.                  *)
(***************************************************************************)
World ==
    [deposits |-> deposits, balance |-> balance, code |-> code, owner |-> owner,
     entryPoint |-> entryPoint, nonce |-> nonce,
     authorizedSigners |-> authorizedSigners,
     whitelistedFunctions |-> whitelistedFunctions,
     walletWhitelisted |-> walletWhitelisted,
     supportedTokens |-> supportedTokens,
     tokenExchangeRate |-> tokenExchangeRate,
     userDeposits |-> userDeposits,
     userTokenBalances |-> userTokenBalances,
     tokenBalanceOf |-> tokenBalanceOf,
     entered |-> {}]

\* a low-level call{value}(data) to target: does the callee accept it
\* (no code: always; SmartWalletFactory: no receive/fallback; the others
\* have receive() and no function for unknown data)
CallAccepted(w, target, data) ==
    IF target \notin w.code THEN TRUE
    ELSE IF target = FACTORY THEN FALSE
    ELSE data = <<>>

\* a transfer of value, performed
Transfer(w, from, to, value) ==
    [w EXCEPT !.balance = [@ EXCEPT ![from] = @ - value, ![to] = @ + value]]

\* a guard that lets a re-entrant call through
nonReentrant_off(w, c) == TRUE

\* ReentrancyGuard.nonReentrant of contract c: the status is not ENTERED
nonReentrant(w, c) ==
    c \notin w.entered

\* the guard of contract c set to ENTERED, and reset
Enter(w, c) == [w EXCEPT !.entered = @ \cup {c}]
Leave(w, c) == [w EXCEPT !.entered = @ \ {c}]

(***************************************************************************)
(* EntryPoint: the deposit ledger                                          *)
(***************************************************************************)
\* EntryPoint.depositTo, called with msg.value = value: [ok, reason, events, w]
depositTo(w, msgSender, account, value) ==
    LET paid == [Transfer(w, msgSender, EP, value) EXCEPT !.deposits[account] = @ + value]
    IN  [ok |-> TRUE, reason |-> "",
         events |-> <<[event |-> "Deposited", account |-> account,
                       totalDeposit |-> paid.deposits[account]]>>,
         w |-> paid]

\* EntryPoint.receive: a plain transfer of value from msgSender
receive(w, msgSender, value) ==
    LET paid == [Transfer(w, msgSender, EP, value) EXCEPT !.deposits[msgSender] = @ + value]
    IN  [ok |-> TRUE, reason |-> "",
         events |-> <<[event |-> "Deposited", account |-> msgSender,
                       totalDeposit |-> paid.deposits[msgSender]]>>,
         w |-> paid]

\* what withdrawAddress.call{value: amount}("") leaves, made by the
\* EntryPoint on world w: a call of the EntryPoint itself runs its receive
SendFromEntryPoint(w, withdrawAddress, amount) ==
    IF w.balance[EP] >= amount /\ CallAccepted(w, withdrawAddress, <<>>)
    THEN [success |-> TRUE,
          w |-> IF withdrawAddress = EP THEN receive(w, EP, amount).w
                ELSE Transfer(w, EP, withdrawAddress, amount)]
    ELSE [success |-> FALSE, w |-> w]

\* withdrawTo that does not require the transfer to succeed
withdrawTo_ignoresFailure(w, msgSender, withdrawAddress, amount) ==
    LET debited == [Enter(w, EP) EXCEPT !.deposits[msgSender] = @ - amount]
        sent == SendFromEntryPoint(debited, withdrawAddress, amount)
    IN  IF ~nonReentrant(w, EP)
        THEN [ok |-> FALSE, reason |-> "ReentrancyGuard: reentrant call",
              events |-> <<>>, w |-> w]
        ELSE IF ~(w.deposits[msgSender] >= amount)
        THEN [ok |-> FALSE, reason |-> "Insufficient deposit", events |-> <<>>, w |-> w]
        ELSE [ok |-> TRUE, reason |-> "",
              events |-> <<[event |-> "Withdrawn", account |-> msgSender,
                            withdrawAddress |-> withdrawAddress, amount |-> amount]>>,
              w |-> Leave(sent.w, EP)]

\* EntryPoint.withdrawTo: [ok, reason, events, w]
withdrawTo(w, msgSender, withdrawAddress, amount) ==
    LET debited == [Enter(w, EP) EXCEPT !.deposits[msgSender] = @ - amount]
        sent == SendFromEntryPoint(debited, withdrawAddress, amount)
    IN  IF ~nonReentrant(w, EP)
        THEN [ok |-> FALSE, reason |-> "ReentrancyGuard: reentrant call",
              events |-> <<>>, w |-> w]
        ELSE IF ~(w.deposits[msgSender] >= amount)
        THEN [ok |-> FALSE, reason |-> "Insufficient deposit", events |-> <<>>, w |-> w]
        ELSE IF ~sent.success
        THEN [ok |-> FALSE, reason |-> "Withdrawal failed", events |-> <<>>, w |-> w]
        ELSE [ok |-> TRUE, reason |-> "",
              events |-> <<[event |-> "Withdrawn", account |-> msgSender,
                            withdrawAddress |-> withdrawAddress, amount |-> amount]>>,
              w |-> Leave(sent.w, EP)]

(***************************************************************************)
(* SmartWallet                                                             *)
(***************************************************************************)
\* isValidSigner answering for the owner alone
isValidSigner_ownerOnly(w, wallet, signer) == signer = w.owner[wallet]

\* SmartWallet.isValidSigner
isValidSigner(w, wallet, signer) ==
    signer \in w.authorizedSigners[wallet]

\* a function selector some contracts implement, the selector of
\* SmartWallet.execute, and the word of its own calldata that the assembly of
\* executeBatch reads in place of a selector
SEL == "0xa9059cbb"
EXECUTE_SEL == "execute.selector"
LAYOUT_WORD == "calldata word"
Selectors == {SEL, EXECUTE_SEL, LAYOUT_WORD}

\* the selectors of SmartWallet.executeBatch and setAuthorizedSigner and of
\* EntryPoint.handleOps and withdrawTo. Call data is the selector followed by
\* the arguments: <<EXECUTE_SEL, target, value>> is execute(target, value, ""),
\* <<EXECUTEBATCH_SEL>> is executeBatch([], [], []),
\* <<SETSIGNER_SEL, signer, status>> is setAuthorizedSigner(signer, status),
\* <<HANDLEOPS_SEL, beneficiary>> is handleOps([], beneficiary) and
\* <<WITHDRAWTO_SEL, to, amount>> is withdrawTo(to, amount).
EXECUTEBATCH_SEL == "executeBatch.selector"
SETSIGNER_SEL == "setAuthorizedSigner.selector"
HANDLEOPS_SEL == "handleOps.selector"
WITHDRAWTO_SEL == "withdrawTo.selector"

\* a modifier that lets every caller through
anyCaller(w, wallet, msgSender) == TRUE

\* an owner-only modifier that lets the entryPoint through as well
ownerOrEntryPoint(w, wallet, msgSender) ==
    msgSender = w.owner[wallet] \/ msgSender = w.entryPoint[wallet]

\* modifier onlyOwner
onlyOwner(w, wallet, msgSender) ==
    msgSender = w.owner[wallet]

\* modifier onlyEntryPointOrOwner
onlyEntryPointOrOwner(w, wallet, msgSender) ==
    msgSender = w.entryPoint[wallet] \/ msgSender = w.owner[wallet]

\* what a reverted call of the wallet leaves
WalletRevert(w, reason) ==
    [ok |-> FALSE, reason |-> reason, events |-> <<>>, returned |-> <<>>, w |-> w]

TransactionExecuted(target, value, data) ==
    [event |-> "TransactionExecuted", target |-> target, value |-> value,
     data |-> data]

\* (success,) = target.call{value: value}(data) made by the wallet
CallSucceeds(w, wallet, target, value, data) ==
    w.balance[wallet] >= value /\ CallAccepted(w, target, data)

(***************************************************************************)
(* The external calls a SmartWallet makes. The functions of the wallet     *)
(* that a call may run are defined below.                                  *)
(***************************************************************************)
RECURSIVE execute(_, _, _, _, _, _)
RECURSIVE executeBatch(_, _, _, _, _, _)
RECURSIVE setAuthorizedSigner(_, _, _, _, _)

\* target.call{value: value}(data) that runs no function of the callee:
\* [ok, w]. A plain transfer to the EntryPoint runs its receive.
PlainCall(w, from, target, value, data) ==
    IF ~CallSucceeds(w, from, target, value, data) THEN [ok |-> FALSE, w |-> w]
    ELSE IF target = EP /\ EP \in w.code
    THEN [ok |-> TRUE, w |-> receive(w, from, value).w]
    ELSE [ok |-> TRUE, w |-> Transfer(w, from, target, value)]

\* does the call data name a function of the callee, with its arguments
Dispatched(w, target, data) ==
    /\ target \in w.code
    /\ data # <<>>
    /\ \/ target = EP /\ data[1] = WITHDRAWTO_SEL /\ Len(data) = 3
       \/ target = EP /\ data[1] = HANDLEOPS_SEL /\ Len(data) = 2
       \/ target \in Wallets /\ data[1] = EXECUTE_SEL /\ Len(data) = 3
       \/ target \in Wallets /\ data[1] = EXECUTEBATCH_SEL /\ Len(data) = 1
       \/ target \in Wallets /\ data[1] = SETSIGNER_SEL /\ Len(data) = 3

\* EntryPoint.handleOps(ops, beneficiary) of an empty ops array, called by
\* a contract: both loops run no iteration, collected stays 0 and the
\* beneficiary is not paid
handleOpsOfNone(w, beneficiary) ==
    IF ~nonReentrant(w, EP) THEN [ok |-> FALSE, w |-> w]
    ELSE [ok |-> TRUE, w |-> Leave(Enter(w, EP), EP)]

\* the function the call data names, run by the callee target with
\* msg.sender = from: [ok, .., w]. None of these functions is payable.
Dispatch(w, from, target, value, data) ==
    IF value # 0 THEN [ok |-> FALSE, w |-> w]
    ELSE CASE target = EP /\ data[1] = WITHDRAWTO_SEL ->
                  withdrawTo(w, from, data[2], data[3])
           [] target = EP /\ data[1] = HANDLEOPS_SEL ->
                  handleOpsOfNone(w, data[2])
           [] target \in Wallets /\ data[1] = EXECUTE_SEL ->
                  execute(w, target, from, data[2], data[3], <<>>)
           [] target \in Wallets /\ data[1] = EXECUTEBATCH_SEL ->
                  executeBatch(w, target, from, <<>>, <<>>, <<>>)
           [] target \in Wallets /\ data[1] = SETSIGNER_SEL ->
                  setAuthorizedSigner(w, target, from, data[2], data[3])

\* target.call{value: value}(data) made by contract from on world w: [ok, w]
Call(w, from, target, value, data) ==
    IF w.balance[from] < value THEN [ok |-> FALSE, w |-> w]
    ELSE IF Dispatched(w, target, data) THEN Dispatch(w, from, target, value, data)
    ELSE PlainCall(w, from, target, value, data)

\* execute after its external call has returned called = [ok, w]:
\* require(success, "Transaction failed") and the event
ExecuteCalled(w, wallet, target, value, data, called) ==
    IF ~called.ok
    THEN WalletRevert(w, "Transaction failed")
    ELSE [ok |-> TRUE, reason |-> "",
          events |-> <<TransactionExecuted(target, value, data)>>,
          returned |-> <<TRUE>>,
          w |-> Leave(called.w, wallet)]

\* SmartWallet.execute called by msgSender: [ok, reason, events, returned, w];
\* a revert leaves w as it was. The selector is the leading word of data.
execute(w, wallet, msgSender, target, value, data) ==
    LET counted == [Enter(w, wallet) EXCEPT !.nonce[wallet] = @ + 1]
    IN  IF ~onlyEntryPointOrOwner(w, wallet, msgSender)
        THEN WalletRevert(w, "Only EntryPoint or owner")
        ELSE IF ~nonReentrant(w, wallet)
        THEN WalletRevert(w, "ReentrancyGuard: reentrant call")
        ELSE IF target = ZERO
        THEN WalletRevert(w, "Invalid target")
        ELSE IF data # <<>> /\ data[1] \notin w.whitelistedFunctions[wallet]
        THEN WalletRevert(w, "Function not whitelisted")
        ELSE ExecuteCalled(w, wallet, target, value, data,
                           Call(counted, wallet, target, value, data))

\* the selector the assembly of executeBatch loads for entry i: it adds 32
\* to the offset of datas[i] (an offset relative to datas.offset) and loads
\* the calldata at that absolute position, which lies in the head of the
\* call's own calldata and not in datas[i]
BatchSelector(targets, values, datas, i) == LAYOUT_WORD

\* an entry of executeBatch after its external call has returned
\* called = [ok, w]: the success is recorded, the event emitted
BatchEntryCalled(acc, counted, target, value, data, called) ==
    [acc EXCEPT
        !.w = IF called.ok THEN called.w ELSE counted,
        !.returned = Append(@, called.ok),
        !.events = Append(@, TransactionExecuted(target, value, data))]

\* the loop of executeBatch from index i on; acc = [ok, reason, events,
\* returned, w]. The call's success is recorded and not required.
RECURSIVE executeBatchLoop(_, _, _, _, _, _)
executeBatchLoop(acc, wallet, targets, values, datas, i) ==
    IF i > Len(targets) \/ ~acc.ok THEN acc
    ELSE LET counted == [acc.w EXCEPT !.nonce[wallet] = @ + 1]
             step ==
                 IF targets[i] = ZERO
                 THEN [acc EXCEPT !.ok = FALSE, !.reason = "Invalid target"]
                 ELSE IF /\ datas[i] # <<>>
                         /\ BatchSelector(targets, values, datas, i)
                                \notin acc.w.whitelistedFunctions[wallet]
                 THEN [acc EXCEPT !.ok = FALSE, !.reason = "Function not whitelisted"]
                 ELSE BatchEntryCalled(acc, counted, targets[i], values[i], datas[i],
                                       Call(counted, wallet, targets[i], values[i],
                                            datas[i]))
         IN  executeBatchLoop(step, wallet, targets, values, datas, i + 1)

\* executeBatch that requires every call to succeed
executeBatch_atomic(w, wallet, msgSender, targets, values, datas) ==
    LET looped == executeBatchLoop([ok |-> TRUE, reason |-> "",
                                    events |-> <<>>,
                                    returned |-> <<>>, w |-> Enter(w, wallet)],
                                   wallet, targets, values, datas, 1)
        done == [looped EXCEPT !.w = Leave(@, wallet)]
    IN  IF ~onlyEntryPointOrOwner(w, wallet, msgSender)
        THEN WalletRevert(w, "Only EntryPoint or owner")
        ELSE IF ~nonReentrant(w, wallet)
        THEN WalletRevert(w, "ReentrancyGuard: reentrant call")
        ELSE IF ~(Len(targets) = Len(values) /\ Len(values) = Len(datas))
        THEN WalletRevert(w, "Array lengths mismatch")
        ELSE IF ~done.ok THEN WalletRevert(w, done.reason)
        ELSE IF \E i \in DOMAIN done.returned : ~done.returned[i]
        THEN WalletRevert(w, "Transaction failed")
        ELSE done

\* executeBatch reporting every entry as successful
executeBatch_reportsAllPaid(w, wallet, msgSender, targets, values, datas) ==
    LET looped == executeBatchLoop([ok |-> TRUE, reason |-> "",
                                    events |-> <<>>,
                                    returned |-> <<>>, w |-> Enter(w, wallet)],
                                   wallet, targets, values, datas, 1)
        done == [looped EXCEPT !.w = Leave(@, wallet)]
    IN  IF ~onlyEntryPointOrOwner(w, wallet, msgSender)
        THEN WalletRevert(w, "Only EntryPoint or owner")
        ELSE IF ~nonReentrant(w, wallet)
        THEN WalletRevert(w, "ReentrancyGuard: reentrant call")
        ELSE IF ~(Len(targets) = Len(values) /\ Len(values) = Len(datas))
        THEN WalletRevert(w, "Array lengths mismatch")
        ELSE IF ~done.ok THEN WalletRevert(w, done.reason)
        ELSE [done EXCEPT !.returned = [i \in DOMAIN @ |-> TRUE]]

\* SmartWallet.executeBatch called by msgSender
executeBatch(w, wallet, msgSender, targets, values, datas) ==
    LET looped == executeBatchLoop([ok |-> TRUE, reason |-> "",
                                    events |-> <<>>,
                                    returned |-> <<>>, w |-> Enter(w, wallet)],
                                   wallet, targets, values, datas, 1)
        done == [looped EXCEPT !.w = Leave(@, wallet)]
    IN  IF ~onlyEntryPointOrOwner(w, wallet, msgSender)
        THEN WalletRevert(w, "Only EntryPoint or owner")
        ELSE IF ~nonReentrant(w, wallet)
        THEN WalletRevert(w, "ReentrancyGuard: reentrant call")
        ELSE IF ~(Len(targets) = Len(values) /\ Len(values) = Len(datas))
        THEN WalletRevert(w, "Array lengths mismatch")
        ELSE IF ~done.ok THEN WalletRevert(w, done.reason)
        ELSE done

\* SmartWallet.setAuthorizedSigner
setAuthorizedSigner(w, wallet, msgSender, signer, status) ==
    IF ~onlyOwner(w, wallet, msgSender) THEN WalletRevert(w, "Only owner")
    ELSE IF signer = ZERO THEN WalletRevert(w, "Invalid signer")
    ELSE [ok |-> TRUE, reason |-> "",
          events |-> <<[event |-> "SignerAuthorized", signer |-> signer,
                        status |-> status]>>,
          returned |-> <<>>,
          w |-> [w EXCEPT !.authorizedSigners[wallet] =
                              IF status THEN @ \cup {signer} ELSE @ \ {signer}]]

\* SmartWallet.setWhitelistedFunction
setWhitelistedFunction(w, wallet, msgSender, selector, status) ==
    IF ~onlyOwner(w, wallet, msgSender) THEN WalletRevert(w, "Only owner")
    ELSE [ok |-> TRUE, reason |-> "",
          events |-> <<[event |-> "FunctionWhitelisted", selector |-> selector,
                        status |-> status]>>,
          returned |-> <<>>,
          w |-> [w EXCEPT !.whitelistedFunctions[wallet] =
                              IF status THEN @ \cup {selector} ELSE @ \ {selector}]]

\* transferOwnership that withdraws the previous owner's authorization
transferOwnership_replacesSigner(w, wallet, msgSender, newOwner) ==
    IF ~onlyOwner(w, wallet, msgSender) THEN WalletRevert(w, "Only owner")
    ELSE IF newOwner = ZERO THEN WalletRevert(w, "Invalid new owner")
    ELSE [ok |-> TRUE, reason |-> "", events |-> <<>>, returned |-> <<>>,
          w |-> [w EXCEPT !.owner[wallet] = newOwner,
                          !.authorizedSigners[wallet] =
                                (@ \ {msgSender}) \cup {newOwner}]]

\* SmartWallet.transferOwnership: it emits no event
transferOwnership(w, wallet, msgSender, newOwner) ==
    IF ~onlyOwner(w, wallet, msgSender)
    THEN WalletRevert(w, "Only owner")
    ELSE IF newOwner = ZERO THEN WalletRevert(w, "Invalid new owner")
    ELSE [ok |-> TRUE, reason |-> "", events |-> <<>>, returned |-> <<>>,
          w |-> [w EXCEPT !.owner[wallet] = newOwner,
                          !.authorizedSigners[wallet] = @ \cup {newOwner}]]

\* SmartWallet.withdraw
withdraw(w, wallet, msgSender, to, amount) ==
    IF ~onlyOwner(w, wallet, msgSender) THEN WalletRevert(w, "Only owner")
    ELSE IF to = ZERO THEN WalletRevert(w, "Invalid recipient")
    ELSE IF ~(w.balance[wallet] >= amount) THEN WalletRevert(w, "Insufficient balance")
    ELSE IF ~CallAccepted(w, to, <<>>) THEN WalletRevert(w, "Withdrawal failed")
    ELSE [ok |-> TRUE, reason |-> "", events |-> <<>>, returned |-> <<>>,
          w |-> Transfer(w, wallet, to, amount)]

(***************************************************************************)
(* EntryPoint: validation pass                                             *)
(***************************************************************************)
\* EntryPoint._isValidSigner: "valid", "invalid", or "revert". The call
\* IWallet(wallet).isValidSigner is a high-level call: made to an address
\* without code it returns no data, decoding the bool reverts in the
\* EntryPoint's own frame, and the catch clause (which only catches a revert
\* of the callee) is not reached. A contract that is no wallet has no such
\* function: its revert is caught.
_isValidSigner(w, wallet, signer) ==
    IF wallet \notin w.code THEN "revert"
    ELSE IF wallet \in Wallets /\ isValidSigner(w, wallet, signer) THEN "valid"
    ELSE "invalid"

\* the required prefund of _validatePrepayment
Prefund(userOp) ==
    (userOp.callGasLimit + userOp.verificationGasLimit + userOp.preVerificationGas)
        * userOp.maxFeePerGas

\* _validatePrepayment with a check of the operation's nonce against the
\* counter of the sender account
_validatePrepayment_checksNonce(w, userOp) ==
    IF userOp.sender \in Wallets /\ userOp.nonce # w.nonce[userOp.sender]
    THEN "Invalid nonce"
    ELSE IF ~(w.deposits[userOp.sender] >= Prefund(userOp))
    THEN "Insufficient balance for gas"
    ELSE ""

\* EntryPoint._validatePrepayment: "" when the operation passes, else the
\* revert reason
_validatePrepayment(w, userOp) ==
    LET hash == toEthSignedMessageHash(getUserOpHash(userOp))
        recovered == recover(hash, userOp.signature)
        signer == IF recovered = userOp.sender THEN "valid"
                  ELSE _isValidSigner(w, userOp.sender, recovered)
    IN  IF signer = "revert" THEN "revert without reason"
        ELSE IF signer = "invalid" THEN "Invalid signature"
        ELSE IF ~(w.deposits[userOp.sender] >= Prefund(userOp))
        THEN "Insufficient balance for gas"
        ELSE ""

\* EntryPoint._validateAccountAndPaymasterValidationData: the revert reason
\* ("" when it passes) and the value it leaves in opInfo.paymaster
_validateAccountAndPaymasterValidationData(w, op) ==
    IF op.initCode = <<>> /\ op.sender \notin w.code
    THEN [reason |-> "Account not deployed", paymaster |-> FALSE]
    ELSE IF op.paymasterAndData.len >= 20
    THEN IF op.paymasterAndData.first20 \notin w.code
         THEN [reason |-> "Invalid paymaster", paymaster |-> FALSE]
         ELSE [reason |-> "", paymaster |-> TRUE]
    ELSE [reason |-> "", paymaster |-> FALSE]

\* one iteration of the validation loop of handleOps: reason and UserOpInfo
ValidateOp(w, op) ==
    LET pre == _validatePrepayment(w, op)
        acc == _validateAccountAndPaymasterValidationData(w, op)
    IN  IF pre # "" THEN [reason |-> pre, prefund |-> 0, paymaster |-> FALSE]
        ELSE [reason |-> acc.reason, prefund |-> Prefund(op),
              paymaster |-> acc.paymaster]

\* what the caller of a reverted handleOps receives: the Error(string) of the
\* require that failed (nothing else; the opIndex handed to
\* _validatePrepayment is not used)
RevertData(reason) == [reason |-> reason]

\* the indices of the operations the validation loop rejects
Rejected(w, ops) == {i \in 1..Len(ops) : ValidateOp(w, ops[i]).reason # ""}

Min(S) == CHOOSE x \in S : \A y \in S : x <= y

(***************************************************************************)
(* EntryPoint: execution pass                                              *)
(***************************************************************************)
\* (success,) of a low-level call whose callee ran to r = [ok, ..., w]
Returned(r) == [success |-> r.ok, w |-> r.w]

\* EntryPoint.innerHandleOp: (success,) = sender.call(callData), the caller
\* of the account being the EntryPoint. A call to an address without code
\* succeeds and does nothing.
innerHandleOp(w, callData, sender) ==
    IF sender \notin w.code THEN [success |-> TRUE, w |-> w]
    ELSE IF sender \in Wallets /\ callData.fn = "execute"
    THEN Returned(execute(w, sender, EP, callData.target, callData.value,
                          callData.data))
    ELSE IF sender \in Wallets /\ callData.fn = "executeBatch"
    THEN Returned(executeBatch(w, sender, EP, callData.targets, callData.values,
                               callData.datas))
    ELSE [success |-> FALSE, w |-> w]

UserOperationEvent(op, opInfo, success, actualGasCost, actualGas) ==
    [userOpHash |-> getUserOpHash(op),
     sender |-> op.sender,
     paymaster |-> IF opInfo.paymaster THEN op.paymasterAndData.first20 ELSE ZERO,
     nonce |-> op.nonce,
     success |-> success,
     actualGasCost |-> actualGasCost,
     actualGas |-> actualGas]

\* the deposit entry the try branch of _executeUserOp debits
Payer(op, opInfo) ==
    IF opInfo.paymaster THEN op.paymasterAndData.first20 ELSE op.sender

\* _executeUserOp with a catch clause that emits no outcome record
_executeUserOp_silentCatch(acc, op, opInfo, run, gasPrice) ==
    LET actualGas == run.gas + 0
        actualGasCost == actualGas * gasPrice
        inner == innerHandleOp(acc.w, op.callData, op.sender)
        payer == Payer(op, opInfo)
    IN  IF run.oog
        THEN [acc EXCEPT
                !.calls = Append(@, "reverted"),
                !.debits = Append(@, [account |-> payer, amount |-> 0]),
                !.collected = @ + actualGasCost]
        ELSE IF inner.w.deposits[payer] < actualGasCost
        THEN [acc EXCEPT
                !.calls = Append(@, IF inner.success THEN "ok" ELSE "failed"),
                !.panic = TRUE]
        ELSE [acc EXCEPT
                !.w = [inner.w EXCEPT !.deposits[payer] = @ - actualGasCost],
                !.events = Append(@, UserOperationEvent(op, opInfo, inner.success,
                                                        actualGasCost, actualGas)),
                !.calls = Append(@, IF inner.success THEN "ok" ELSE "failed"),
                !.debits = Append(@, [account |-> payer, amount |-> actualGasCost]),
                !.collected = @ + actualGasCost]

\* EntryPoint._executeUserOp on the running state acc of handleOps.
\* run.gas is preGas - gasleft(); run.oog: innerHandleOp itself reverts (it
\* runs out of gas), which the catch clause catches. opInfo.preOpGas is never
\* set and stays 0. The debit is checked arithmetic: an underflow panics and
\* the panic is outside the try, so it reverts handleOps.
\* acc.calls and acc.debits trace what was dispatched and debited.
_executeUserOp(acc, op, opInfo, run, gasPrice) ==
    LET actualGas == run.gas + 0
        actualGasCost == actualGas * gasPrice
        inner == innerHandleOp(acc.w, op.callData, op.sender)
        payer == Payer(op, opInfo)
    IN  IF run.oog
        THEN [acc EXCEPT
                !.events = Append(@, UserOperationEvent(op, opInfo, FALSE,
                                                        actualGasCost, actualGas)),
                !.calls = Append(@, "reverted"),
                !.debits = Append(@, [account |-> payer, amount |-> 0]),
                !.collected = @ + actualGasCost]
        ELSE IF inner.w.deposits[payer] < actualGasCost
        THEN [acc EXCEPT
                !.calls = Append(@, IF inner.success THEN "ok" ELSE "failed"),
                !.panic = TRUE]
        ELSE [acc EXCEPT
                !.w = [inner.w EXCEPT !.deposits[payer] = @ - actualGasCost],
                !.events = Append(@, UserOperationEvent(op, opInfo, inner.success,
                                                        actualGasCost, actualGas)),
                !.calls = Append(@, IF inner.success THEN "ok" ELSE "failed"),
                !.debits = Append(@, [account |-> payer, amount |-> actualGasCost]),
                !.collected = @ + actualGasCost]

\* the execution loop of handleOps from index i on
RECURSIVE ExecutionPhase(_, _, _, _, _, _)
ExecutionPhase(acc, ops, opInfos, env, gasPrice, i) ==
    IF i > Len(ops) \/ acc.panic THEN acc
    ELSE ExecutionPhase(_executeUserOp(acc, ops[i], opInfos[i], env[i], gasPrice),
                        ops, opInfos, env, gasPrice, i + 1)

\* what a reverted handleOps leaves: the world as it was and no event
Reverted(w, reason, validated, calls) ==
    [status |-> "reverted", reason |-> reason, validated |-> validated,
     events |-> <<>>, calls |-> calls, debits |-> <<>>, paid |-> 0, w |-> w]

\* the end of handleOps, the execution loop having left done: the payment
\* of the beneficiary
PayBeneficiary(w, ops, beneficiary, done) ==
    LET pays == beneficiary # ZERO /\ done.collected > 0
        paid == done.w.balance[EP] >= done.collected
                    /\ CallAccepted(done.w, beneficiary, <<>>)
    IN  IF done.panic THEN Reverted(w, "Panic", Len(ops), done.calls)
        ELSE IF pays /\ ~paid
        THEN Reverted(w, "Failed to pay beneficiary", Len(ops), done.calls)
        ELSE [status |-> "ok", reason |-> "", validated |-> Len(ops),
              events |-> done.events, calls |-> done.calls, debits |-> done.debits,
              paid |-> IF pays THEN done.collected ELSE 0,
              w |-> IF pays THEN Transfer(done.w, EP, beneficiary, done.collected)
                    ELSE done.w]

\* handleOps after the validation loop: the execution loop and the payment
\* of the beneficiary
ExecuteAndPay(w, ops, opInfos, beneficiary, gasPrice, env) ==
    PayBeneficiary(w, ops, beneficiary,
                   ExecutionPhase([w |-> w, events |-> <<>>, calls |-> <<>>,
                                   debits |-> <<>>, collected |-> 0, panic |-> FALSE],
                                  ops, opInfos, env, gasPrice, 1))

\* handleOps that stops at the first rejected operation without reverting:
\* the operations before it have been executed and stay executed
handleOps_keepsPrefix(w, ops, beneficiary, gasPrice, env) ==
    LET rejected == Rejected(w, ops)
        opInfos == [i \in 1..Len(ops) |-> ValidateOp(w, ops[i])]
        k == Min(rejected) - 1
        r == ExecuteAndPay(Enter(w, EP), SubSeq(ops, 1, k), SubSeq(opInfos, 1, k),
                           beneficiary, gasPrice, SubSeq(env, 1, k))
        all == ExecuteAndPay(Enter(w, EP), ops, opInfos, beneficiary, gasPrice, env)
    IN  IF ~nonReentrant(w, EP)
        THEN Reverted(w, "ReentrancyGuard: reentrant call", 0, <<>>)
        ELSE IF rejected # {}
        THEN [r EXCEPT !.validated = k,
                       !.reason = ValidateOp(w, ops[Min(rejected)]).reason,
                       !.w = Leave(@, EP)]
        ELSE [all EXCEPT !.w = Leave(@, EP)]

\* EntryPoint.handleOps on world w: the receipt of the transaction and the
\* world it leaves (w itself when it reverts)
handleOps(w, ops, beneficiary, gasPrice, env) ==
    LET rejected == Rejected(w, ops)
        opInfos == [i \in 1..Len(ops) |-> ValidateOp(w, ops[i])]
        all == ExecuteAndPay(Enter(w, EP), ops, opInfos, beneficiary, gasPrice, env)
    IN  IF ~nonReentrant(w, EP)
        THEN Reverted(w, "ReentrancyGuard: reentrant call", 0, <<>>)
        ELSE IF rejected # {}
        THEN Reverted(w, ValidateOp(w, ops[Min(rejected)]).reason,
                      Min(rejected) - 1, <<>>)
        ELSE [all EXCEPT !.w = Leave(@, EP)]

(***************************************************************************)
(* SmartWalletFactory                                                      *)
(***************************************************************************)
\* the CREATE2 address computed without the salt
getWalletAddress_ignoresSalt(owner_, entryPoint_, salt) ==
    IF <<owner_, entryPoint_>> = <<O1, EP>> THEN W1
    ELSE IF <<owner_, entryPoint_>> = <<O2, EP>> THEN W2
    ELSE GARBAGE

\* SmartWalletFactory.getWalletAddress: the CREATE2 address, one for every
\* (owner, entryPoint, salt) a wallet can be created with
getWalletAddress(owner_, entryPoint_, salt) ==
    IF <<owner_, entryPoint_, salt>> = <<O1, EP, SALT>> THEN W1
    ELSE IF <<owner_, entryPoint_, salt>> = <<O2, EP, SALT>> THEN W2
    ELSE IF <<owner_, entryPoint_, salt>> = <<O1, EP, SALT2>> THEN W3
    ELSE IF <<owner_, entryPoint_, salt>> = <<O2, EP, SALT2>> THEN W4
    ELSE GARBAGE

\* SmartWalletFactory.createWallet with SmartWallet.initialize: [ok, reason, w]
WalletCreated(wallet, owner_, entryPoint_) ==
    [event |-> "WalletCreated", wallet |-> wallet, owner |-> owner_,
     entryPoint |-> entryPoint_]

\* Create2.deploy of the proxy, whose constructor runs SmartWallet.initialize
\* (owner_, entryPoint_) on the new account: the world with the account
Deploy(w, wallet, owner_, entryPoint_) ==
    [w EXCEPT !.code = @ \cup {wallet},
              !.owner[wallet] = owner_,
              !.entryPoint[wallet] = entryPoint_,
              !.authorizedSigners[wallet] = @ \cup {owner_}]

\* SmartWalletFactory.createWallet with SmartWallet.initialize:
\* [ok, reason, events, returned, w]. Create2.deploy reverts when the address
\* already has code.
createWallet(w, owner_, entryPoint_, salt) ==
    LET wallet == getWalletAddress(owner_, entryPoint_, salt)
        revert(reason) == [ok |-> FALSE, reason |-> reason, events |-> <<>>,
                           returned |-> <<>>, w |-> w]
    IN  IF owner_ = ZERO THEN revert("Invalid owner")
        ELSE IF entryPoint_ = ZERO THEN revert("Invalid entry point")
        ELSE IF wallet \in w.code THEN revert("Create2: Failed on deploy")
        ELSE [ok |-> TRUE, reason |-> "",
              events |-> <<WalletCreated(wallet, owner_, entryPoint_)>>,
              returned |-> <<wallet>>,
              w |-> Deploy(w, wallet, owner_, entryPoint_)]

\* the loop of createWalletBatch from index i on; acc = [ok, reason, events,
\* returned, w]
RECURSIVE createWalletBatchLoop(_, _, _, _, _)
createWalletBatchLoop(acc, owners, entryPoint_, salts, i) ==
    IF i > Len(owners) \/ ~acc.ok THEN acc
    ELSE LET wallet == getWalletAddress(owners[i], entryPoint_, salts[i])
             step == IF owners[i] = ZERO
                     THEN [acc EXCEPT !.ok = FALSE, !.reason = "Invalid owner"]
                     ELSE IF wallet \in acc.w.code
                     THEN [acc EXCEPT !.ok = FALSE,
                                      !.reason = "Create2: Failed on deploy"]
                     ELSE [acc EXCEPT
                             !.events = Append(@, WalletCreated(wallet, owners[i],
                                                                entryPoint_)),
                             !.returned = Append(@, wallet),
                             !.w = Deploy(@, wallet, owners[i], entryPoint_)]
         IN  createWalletBatchLoop(step, owners, entryPoint_, salts, i + 1)

\* createWalletBatch whose failure leaves the accounts deployed so far
createWalletBatch_keepsDeployed(w, owners, entryPoint_, salts) ==
    IF Len(owners) # Len(salts)
    THEN [ok |-> FALSE, reason |-> "Array lengths mismatch", events |-> <<>>,
          returned |-> <<>>, w |-> w]
    ELSE IF entryPoint_ = ZERO
    THEN [ok |-> FALSE, reason |-> "Invalid entry point", events |-> <<>>,
          returned |-> <<>>, w |-> w]
    ELSE createWalletBatchLoop([ok |-> TRUE, reason |-> "", events |-> <<>>,
                                returned |-> <<>>, w |-> w],
                               owners, entryPoint_, salts, 1)

\* SmartWalletFactory.createWalletBatch: [ok, reason, events, returned, w]; a
\* revert leaves w as it was and no event
createWalletBatch(w, owners, entryPoint_, salts) ==
    LET revert(reason) == [ok |-> FALSE, reason |-> reason, events |-> <<>>,
                           returned |-> <<>>, w |-> w]
        done == createWalletBatchLoop([ok |-> TRUE, reason |-> "", events |-> <<>>,
                                       returned |-> <<>>, w |-> w],
                                      owners, entryPoint_, salts, 1)
    IN  IF Len(owners) # Len(salts) THEN revert("Array lengths mismatch")
        ELSE IF entryPoint_ = ZERO THEN revert("Invalid entry point")
        ELSE IF ~done.ok THEN revert(done.reason)
        ELSE done

(***************************************************************************)
(* Paymaster                                                               *)
(***************************************************************************)
\* Ownable: the deployer of the Paymaster
PaymasterOwner == O1

\* Paymaster.entryPoint (immutable, set by the constructor)
PaymasterEntryPoint == EP

\* RATE_DENOMINATOR. The source's value is 1e18; the model counts exchange
\* rates in halves, so that a rate below, at and above one native unit per
\* token exists and the division rounds.
RATE_DENOMINATOR == 2

\* Paymaster.minDepositAmount, as the constructor set it
minDepositAmount == 1

Max(a, b) == IF a > b THEN a ELSE b

\* Paymaster.removeSupportedToken: [ok, reason, events, w]
removeSupportedToken(w, msgSender, token) ==
    IF msgSender # PaymasterOwner
    THEN [ok |-> FALSE, reason |-> "Ownable: caller is not the owner",
          events |-> <<>>, w |-> w]
    ELSE IF token \notin w.supportedTokens
    THEN [ok |-> FALSE, reason |-> "Token not supported", events |-> <<>>, w |-> w]
    ELSE [ok |-> TRUE, reason |-> "",
          events |-> <<[event |-> "TokenRemoved", token |-> token]>>,
          w |-> [w EXCEPT !.supportedTokens = @ \ {token},
                          !.tokenExchangeRate[token] = 0]]

\* Paymaster.addSupportedToken: [ok, reason, events, w]
addSupportedToken(w, msgSender, token, exchangeRate) ==
    IF msgSender # PaymasterOwner
    THEN [ok |-> FALSE, reason |-> "Ownable: caller is not the owner",
          events |-> <<>>, w |-> w]
    ELSE IF token = ZERO
    THEN [ok |-> FALSE, reason |-> "Invalid token", events |-> <<>>, w |-> w]
    ELSE IF ~(exchangeRate > 0)
    THEN [ok |-> FALSE, reason |-> "Invalid exchange rate", events |-> <<>>, w |-> w]
    ELSE IF token \in w.supportedTokens
    THEN [ok |-> FALSE, reason |-> "Token already supported", events |-> <<>>, w |-> w]
    ELSE [ok |-> TRUE, reason |-> "",
          events |-> <<[event |-> "TokenAdded", token |-> token,
                        exchangeRate |-> exchangeRate]>>,
          w |-> [w EXCEPT !.supportedTokens = @ \cup {token},
                          !.tokenExchangeRate[token] = exchangeRate]]

\* Paymaster.updateExchangeRate: [ok, reason, events, w]
updateExchangeRate(w, msgSender, token, newRate) ==
    IF msgSender # PaymasterOwner
    THEN [ok |-> FALSE, reason |-> "Ownable: caller is not the owner",
          events |-> <<>>, w |-> w]
    ELSE IF token \notin w.supportedTokens
    THEN [ok |-> FALSE, reason |-> "Token not supported", events |-> <<>>, w |-> w]
    ELSE IF ~(newRate > 0)
    THEN [ok |-> FALSE, reason |-> "Invalid exchange rate", events |-> <<>>, w |-> w]
    ELSE [ok |-> TRUE, reason |-> "",
          events |-> <<[event |-> "ExchangeRateUpdated", token |-> token,
                        newRate |-> newRate]>>,
          w |-> [w EXCEPT !.tokenExchangeRate[token] = newRate]]

\* depositTokens without the check of the minimum amount
depositTokens_noMinimum(w, msgSender, token, amount) ==
    LET ethValue == (amount * w.tokenExchangeRate[token]) \div RATE_DENOMINATOR
        newDeposit == w.userDeposits[msgSender] + ethValue
    IN  IF token \notin w.supportedTokens
        THEN [ok |-> FALSE, reason |-> "Token not supported", events |-> <<>>, w |-> w]
        ELSE IF ~(w.tokenBalanceOf[token][msgSender] >= amount)
        THEN [ok |-> FALSE, reason |-> "ERC20: transfer amount exceeds balance",
              events |-> <<>>, w |-> w]
        ELSE [ok |-> TRUE, reason |-> "",
              events |-> <<[event |-> "TokensDeposited", user |-> msgSender,
                            token |-> token, amount |-> amount],
                           [event |-> "UserDepositUpdated", user |-> msgSender,
                            newBalance |-> newDeposit]>>,
              w |-> [w EXCEPT
                       !.tokenBalanceOf[token] =
                           [@ EXCEPT ![msgSender] = @ - amount, ![PM] = @ + amount],
                       !.userTokenBalances[msgSender][token] = @ + amount,
                       !.userDeposits[msgSender] = newDeposit]]

\* Paymaster.depositTokens. safeTransferFrom moves the tokens of msg.sender,
\* who has approved the Paymaster, and reverts when they are not there.
depositTokens(w, msgSender, token, amount) ==
    LET ethValue == (amount * w.tokenExchangeRate[token]) \div RATE_DENOMINATOR
        newDeposit == w.userDeposits[msgSender] + ethValue
    IN  IF token \notin w.supportedTokens
        THEN [ok |-> FALSE, reason |-> "Token not supported", events |-> <<>>, w |-> w]
        ELSE IF ~(amount >= minDepositAmount)
        THEN [ok |-> FALSE, reason |-> "Amount below minimum", events |-> <<>>, w |-> w]
        ELSE IF ~(w.tokenBalanceOf[token][msgSender] >= amount)
        THEN [ok |-> FALSE, reason |-> "ERC20: transfer amount exceeds balance",
              events |-> <<>>, w |-> w]
        ELSE [ok |-> TRUE, reason |-> "",
              events |-> <<[event |-> "TokensDeposited", user |-> msgSender,
                            token |-> token, amount |-> amount],
                           [event |-> "UserDepositUpdated", user |-> msgSender,
                            newBalance |-> newDeposit]>>,
              w |-> [w EXCEPT
                       !.tokenBalanceOf[token] =
                           [@ EXCEPT ![msgSender] = @ - amount, ![PM] = @ + amount],
                       !.userTokenBalances[msgSender][token] = @ + amount,
                       !.userDeposits[msgSender] = newDeposit]]

\* Paymaster.withdrawTokens. The value is converted at the rate of the
\* moment of the withdrawal; safeTransfer reverts when the Paymaster does not
\* hold the tokens.
withdrawTokens(w, msgSender, token, amount) ==
    LET ethValue == (amount * w.tokenExchangeRate[token]) \div RATE_DENOMINATOR
        newDeposit == w.userDeposits[msgSender] - ethValue
    IN  IF token \notin w.supportedTokens
        THEN [ok |-> FALSE, reason |-> "Token not supported", events |-> <<>>, w |-> w]
        ELSE IF ~(w.userTokenBalances[msgSender][token] >= amount)
        THEN [ok |-> FALSE, reason |-> "Insufficient balance", events |-> <<>>, w |-> w]
        ELSE IF ~(w.userDeposits[msgSender] >= ethValue)
        THEN [ok |-> FALSE, reason |-> "Insufficient deposit", events |-> <<>>, w |-> w]
        ELSE IF ~(w.tokenBalanceOf[token][PM] >= amount)
        THEN [ok |-> FALSE, reason |-> "ERC20: transfer amount exceeds balance",
              events |-> <<>>, w |-> w]
        ELSE [ok |-> TRUE, reason |-> "",
              events |-> <<[event |-> "TokensWithdrawn", user |-> msgSender,
                            token |-> token, amount |-> amount],
                           [event |-> "UserDepositUpdated", user |-> msgSender,
                            newBalance |-> newDeposit]>>,
              w |-> [w EXCEPT
                       !.tokenBalanceOf[token] =
                           [@ EXCEPT ![PM] = @ - amount, ![msgSender] = @ + amount],
                       !.userTokenBalances[msgSender][token] = @ - amount,
                       !.userDeposits[msgSender] = newDeposit]]

\* abi.encode(sender, requiredPreFund), the context of a sponsored operation
Context(sender, requiredPreFund) ==
    [sender |-> sender, requiredPreFund |-> requiredPreFund]

\* Paymaster.validatePaymasterUserOp (a view): [ok, reason, context]
validatePaymasterUserOp(w, msgSender, sender, requiredPreFund) ==
    IF msgSender # PaymasterEntryPoint
    THEN [ok |-> FALSE, reason |-> "Only entry point", context |-> <<>>]
    ELSE IF ~(w.userDeposits[sender] >= requiredPreFund)
    THEN [ok |-> FALSE, reason |-> "Insufficient deposit", context |-> <<>>]
    ELSE [ok |-> TRUE, reason |-> "", context |-> Context(sender, requiredPreFund)]

\* Paymaster.postOp. The subtraction is checked: an underflow reverts.
postOp(w, msgSender, context, actualGasCost) ==
    LET sender == context.sender
        requiredPreFund == context.requiredPreFund
        actualCost == IF actualGasCost > requiredPreFund THEN actualGasCost
                      ELSE requiredPreFund
    IN  IF msgSender # PaymasterEntryPoint
        THEN [ok |-> FALSE, reason |-> "Only entry point", events |-> <<>>, w |-> w]
        ELSE IF w.userDeposits[sender] < actualCost
        THEN [ok |-> FALSE, reason |-> "Panic", events |-> <<>>, w |-> w]
        ELSE [ok |-> TRUE, reason |-> "",
              events |-> <<[event |-> "UserDepositUpdated", user |-> sender,
                            newBalance |-> w.userDeposits[sender] - actualCost]>>,
              w |-> [w EXCEPT !.userDeposits[sender] = @ - actualCost]]

(***************************************************************************)
(* Inputs                                                                  *)
(***************************************************************************)
Payers == {W1, PM, O2}
Funders == {O1}
\* the accounts that hold tokens after construction
TokenHolders == {O1}
BatchLengths == {0, 1, 2}

\* operations of the wallet signed by its owner, with and without sponsor,
\* moving 0 or 1 to O2, and one signed by a stranger
WalletOps ==
    {Signed(UserOp(W1, ExecuteCall(O2, 0, <<>>), NoPaymasterData, <<>>), O1),
     Signed(UserOp(W1, ExecuteCall(O2, 1, <<>>), NoPaymasterData, <<>>), O1),
     Signed(UserOp(W1, ExecuteCall(O2, 1, <<>>), PaymasterData(PM), <<>>), O1),
     Signed(UserOp(W1, ExecuteCall(O2, 0, <<>>), NoPaymasterData, <<>>), O2)}

\* an operation whose sender is the key holder O2 itself, an address without
\* code, signed by itself
KeyHolderOps ==
    {Signed(UserOp(O2, ExecuteCall(O1, 0, <<>>), NoPaymasterData, <<"initCode">>), O2)}

UserOps == WalletOps \cup KeyHolderOps

Batches == UNION {[1..n -> UserOps] : n \in BatchLengths}

\* how a dispatch runs: the gas it takes, and whether innerHandleOp runs out
\* of gas
Runs == {[gas |-> 1, oog |-> FALSE], [gas |-> 2, oog |-> FALSE],
         [gas |-> 2, oog |-> TRUE]}

\* beneficiary and tx.gasprice of a handleOps transaction
TxEnvs == {[beneficiary |-> ZERO, gasPrice |-> 1],
           [beneficiary |-> O2, gasPrice |-> 1],
           [beneficiary |-> O2, gasPrice |-> 0],
           [beneficiary |-> FACTORY, gasPrice |-> 2]}

(***************************************************************************)
(* Transactions. A transaction runs as one step and hands its receipt to   *)
(* its sender, who takes it before sending the next one.                   *)
(***************************************************************************)
NoReceipt ==
    [tx |-> "", args |-> <<>>, returned |-> <<>>,
     status |-> "", reason |-> "", ops |-> <<>>, beneficiary |-> ZERO,
     gasPrice |-> 0, env |-> <<>>, validated |-> 0, events |-> <<>>,
     calls |-> <<>>, debits |-> <<>>, paid |-> 0]

Receipt(tx, status, reason) ==
    [NoReceipt EXCEPT !.tx = tx, !.status = status, !.reason = reason]

\* the receipt of a call tx(args) whose outcome is r = [ok, reason, events, w]
CallReceipt(tx, args, r) ==
    [NoReceipt EXCEPT !.tx = tx, !.args = args,
                      !.status = IF r.ok THEN "ok" ELSE "reverted",
                      !.reason = r.reason, !.events = r.events]

\* the same, of a call that returns a value
ReturnReceipt(tx, args, r) ==
    [CallReceipt(tx, args, r) EXCEPT !.returned = r.returned]

\* the transaction leaves world w
CommitChain(w) ==
    /\ deposits' = w.deposits
    /\ balance' = w.balance
    /\ code' = w.code
    /\ owner' = w.owner
    /\ entryPoint' = w.entryPoint
    /\ nonce' = w.nonce
    /\ authorizedSigners' = w.authorizedSigners
    /\ whitelistedFunctions' = w.whitelistedFunctions
    /\ walletWhitelisted' = w.walletWhitelisted
    /\ supportedTokens' = w.supportedTokens
    /\ tokenExchangeRate' = w.tokenExchangeRate
    /\ userDeposits' = w.userDeposits
    /\ userTokenBalances' = w.userTokenBalances
    /\ tokenBalanceOf' = w.tokenBalanceOf

Commit(w) ==
    /\ CommitChain(w)
    /\ UNCHANGED consumed

Init ==
    /\ deposits = [a \in Addr |-> 0]
    /\ balance = [a \in Addr |-> IF a \in Funders THEN InitialFunds ELSE 0]
    /\ code = {EP, PM, FACTORY, TOKEN}
    /\ owner = [a \in Wallets |-> ZERO]
    /\ entryPoint = [a \in Wallets |-> ZERO]
    /\ nonce = [a \in Wallets |-> 0]
    /\ authorizedSigners = [a \in Wallets |-> {}]
    /\ whitelistedFunctions = [a \in Wallets |-> {}]
    /\ walletWhitelisted = {}
    /\ supportedTokens = {}
    /\ tokenExchangeRate = [t \in Tokens |-> 0]
    /\ userDeposits = [a \in Addr |-> 0]
    /\ userTokenBalances = [a \in Addr |-> [t \in Tokens |-> 0]]
    /\ tokenBalanceOf = [t \in Tokens |-> [a \in Addr |->
                            IF a \in TokenHolders THEN InitialTokens ELSE 0]]
    /\ consumed = {}
    /\ last = NoReceipt

\* the sender of the latest transaction takes its receipt
TakeReceipt ==
    /\ last # NoReceipt
    /\ last' = NoReceipt
    /\ UNCHANGED <<chain, consumed>>

\* a transaction calling SmartWalletFactory.createWallet
CreateWallet ==
    /\ last = NoReceipt
    /\ \E o \in {ZERO, O1}, e \in {ZERO, EP} :
        LET r == createWallet(World, o, e, SALT) IN
        /\ Commit(r.w)
        /\ last' = Receipt("createWallet", IF r.ok THEN "ok" ELSE "reverted", r.reason)

\* a transaction calling EntryPoint.depositTo(account) with msg.value = value
DepositTo ==
    /\ last = NoReceipt
    /\ \E from \in Funders, account \in Payers, value \in 1..InitialFunds :
        /\ balance[from] >= value
        /\ Commit([Transfer(World, from, EP, value) EXCEPT
                        !.deposits[account] = @ + value])
        /\ last' = Receipt("depositTo", "ok", "")

\* a plain transfer of value to the wallet's address (SmartWallet.receive)
FundWallet ==
    /\ last = NoReceipt
    /\ \E from \in Funders, wallet \in FirstWallets :
        /\ balance[from] >= 1
        /\ Commit(Transfer(World, from, wallet, 1))
        /\ last' = Receipt("receive", "ok", "")

\* the sponsor's owner whitelists or unlists an account for sponsorship
SetWalletWhitelisted ==
    /\ last = NoReceipt
    /\ \E wallet \in FirstWallets, status \in BOOLEAN :
        /\ walletWhitelisted' = IF status THEN walletWhitelisted \cup {wallet}
                                 ELSE walletWhitelisted \ {wallet}
        /\ UNCHANGED <<deposits, balance, code, owner, entryPoint, nonce,
                       authorizedSigners, whitelistedFunctions, supportedTokens,
                       tokenExchangeRate, userDeposits, userTokenBalances,
                       tokenBalanceOf, consumed>>
        /\ last' = Receipt("setWalletWhitelisted", "ok", "")

\* a transaction calling EntryPoint.handleOps(ops, beneficiary) at tx.gasprice
\* gasPrice, the i-th dispatch running as env[i]
HandleOpsReceipt(ops, beneficiary, gasPrice, env, r) ==
    [tx |-> "handleOps", args |-> <<>>, returned |-> <<>>,
     status |-> r.status, reason |-> r.reason,
     ops |-> ops, beneficiary |-> beneficiary, gasPrice |-> gasPrice,
     env |-> env, validated |-> r.validated, events |-> r.events,
     calls |-> r.calls, debits |-> r.debits, paid |-> r.paid]

HandleOpsTx(ops, beneficiary, gasPrice, env) ==
    LET r == handleOps(World, ops, beneficiary, gasPrice, env) IN
    /\ Commit(r.w)
    /\ last' = HandleOpsReceipt(ops, beneficiary, gasPrice, env, r)

HandleOps ==
    /\ last = NoReceipt
    /\ \E ops \in Batches, tx \in TxEnvs :
        /\ \A wallet \in Wallets : nonce[wallet] + Len(ops) <= MaxNonce
        /\ IF Rejected(World, ops) # {}
           THEN HandleOpsTx(ops, tx.beneficiary, tx.gasPrice,
                            [i \in 1..Len(ops) |-> [gas |-> 1, oog |-> FALSE]])
           ELSE \E env \in [1..Len(ops) -> Runs] :
                    HandleOpsTx(ops, tx.beneficiary, tx.gasPrice, env)

(***************************************************************************)
(* Transactions of the Paymaster                                           *)
(***************************************************************************)
Callers == {O1, O2, EP}
Rates == {1, 2, 3}
TokenAmounts == 0..InitialTokens
GasCosts == 0..MaxGasCost

AddSupportedToken ==
    /\ last = NoReceipt
    /\ \E msgSender \in {O1, O2}, token \in Tokens \cup {ZERO}, rate \in Rates \cup {0} :
        LET r == addSupportedToken(World, msgSender, token, rate) IN
        /\ Commit(r.w)
        /\ last' = CallReceipt("addSupportedToken", <<msgSender, token, rate>>, r)

DepositTokens ==
    /\ last = NoReceipt
    /\ \E msgSender \in {O1, O2}, token \in Tokens, amount \in TokenAmounts :
        LET r == depositTokens(World, msgSender, token, amount) IN
        /\ Commit(r.w)
        /\ last' = CallReceipt("depositTokens", <<msgSender, token, amount>>, r)

\* the view Paymaster.validatePaymasterUserOp, called for an operation of
\* sender that requires requiredPreFund
ValidatePaymasterUserOp ==
    /\ last = NoReceipt
    /\ \E msgSender \in Callers, sender \in {O1, O2}, requiredPreFund \in GasCosts :
        LET v == validatePaymasterUserOp(World, msgSender, sender, requiredPreFund) IN
        /\ Commit(World)
        /\ last' = ReturnReceipt("validatePaymasterUserOp",
                                 <<msgSender, sender, requiredPreFund>>,
                                 [ok |-> v.ok, reason |-> v.reason, events |-> <<>>,
                                  returned |-> v.context])

\* a transaction calling Paymaster.postOp(context, actualGasCost)
PostOp ==
    /\ last = NoReceipt
    /\ \E msgSender \in Callers, sender \in {O1, O2}, requiredPreFund \in GasCosts,
          actualGasCost \in GasCosts :
        LET r == postOp(World, msgSender, Context(sender, requiredPreFund),
                        actualGasCost)
        IN  /\ Commit(r.w)
            /\ last' = CallReceipt("postOp",
                                   <<msgSender, sender, requiredPreFund, actualGasCost>>, r)

NextPaymaster ==
    \/ TakeReceipt
    \/ AddSupportedToken
    \/ DepositTokens
    \/ ValidatePaymasterUserOp
    \/ PostOp

SpecPaymaster == Init /\ [][NextPaymaster]_vars

\* a handleOps transaction of one operation of the wallet sponsored by the
\* Paymaster
SponsoredHandleOps ==
    /\ last = NoReceipt
    /\ \E env \in [1..1 -> Runs] :
        LET ops == <<Signed(UserOp(W1, ExecuteCall(O2, 0, <<>>), PaymasterData(PM),
                                   <<>>), O1)>>
        IN  /\ nonce[W1] + 1 <= MaxNonce
            /\ HandleOpsTx(ops, ZERO, 1, env)

\* both sponsors at work: the Paymaster's token ledger and the EntryPoint's
\* deposits
SpecSettlement ==
    Init /\ [][NextPaymaster \/ CreateWallet \/ DepositTo \/ SponsoredHandleOps]_vars

(***************************************************************************)
(* Transactions of the SmartWalletFactory                                  *)
(***************************************************************************)
Owners == {ZERO, O1, O2}
EntryPoints == {ZERO, EP}
Salts == {SALT, SALT2}
MaxBatch == 2
OwnerLists == UNION {[1..n -> Owners] : n \in 0..MaxBatch}
SaltLists == UNION {[1..n -> Salts] : n \in 0..MaxBatch}

\* a transaction calling createWallet(owner_, entryPoint_, salt)
FactoryCreateWallet ==
    /\ last = NoReceipt
    /\ \E o \in Owners, e \in EntryPoints, salt \in Salts :
        LET r == createWallet(World, o, e, salt) IN
        /\ Commit(r.w)
        /\ last' = ReturnReceipt("createWallet", <<o, e, salt>>, r)

\* a transaction calling createWalletBatch(owners, entryPoint_, salts)
CreateWalletBatch ==
    /\ last = NoReceipt
    /\ \E owners \in OwnerLists, e \in EntryPoints, salts \in SaltLists :
        LET r == createWalletBatch(World, owners, e, salts) IN
        /\ Commit(r.w)
        /\ last' = ReturnReceipt("createWalletBatch", <<owners, e, salts>>, r)

NextFactory ==
    \/ TakeReceipt
    \/ FactoryCreateWallet
    \/ CreateWalletBatch

SpecFactory == Init /\ [][NextFactory]_vars

(***************************************************************************)
(* Transactions of a SmartWallet. The caller EP stands for a call the       *)
(* EntryPoint forwards from innerHandleOp.                                  *)
(***************************************************************************)
Deployed == Wallets \cap code

\* the calls a wallet is asked to make: a payment, a payment the target
\* refuses, a function call, and a call of the zero address
WalletCalls ==
    {[target |-> O2, value |-> 1, data |-> <<>>],
     [target |-> FACTORY, value |-> 0, data |-> <<>>],
     [target |-> O2, value |-> 0, data |-> <<SEL>>],
     [target |-> ZERO, value |-> 0, data |-> <<>>]}

CallLists == UNION {[1..n -> WalletCalls] : n \in 0..MaxBatch}

Execute ==
    /\ last = NoReceipt
    /\ \E wallet \in Deployed, msgSender \in Callers, c \in WalletCalls :
        LET r == execute(World, wallet, msgSender, c.target, c.value, c.data) IN
        /\ nonce[wallet] + 1 <= MaxNonce
        /\ Commit(r.w)
        /\ last' = ReturnReceipt("execute",
                                 <<wallet, msgSender, c.target, c.value, c.data>>, r)

\* executeBatch of a list of calls; short = 1 hands in a values array that
\* lacks its last element
ExecuteBatch ==
    /\ last = NoReceipt
    /\ \E wallet \in Deployed, msgSender \in Callers, cs \in CallLists, short \in {0, 1} :
        LET targets == [i \in 1..Len(cs) |-> cs[i].target]
            values == [i \in 1..(Len(cs) - short) |-> cs[i].value]
            datas == [i \in 1..Len(cs) |-> cs[i].data]
            r == executeBatch(World, wallet, msgSender, targets, values, datas)
        IN  /\ short <= Len(cs)
            /\ nonce[wallet] + Len(cs) <= MaxNonce
            /\ Commit(r.w)
            /\ last' = ReturnReceipt("executeBatch",
                                     <<wallet, msgSender, targets, values, datas>>, r)

SetAuthorizedSigner ==
    /\ last = NoReceipt
    /\ \E wallet \in Deployed, msgSender \in Callers, signer \in {ZERO, O2},
          status \in BOOLEAN :
        LET r == setAuthorizedSigner(World, wallet, msgSender, signer, status) IN
        /\ Commit(r.w)
        /\ last' = ReturnReceipt("setAuthorizedSigner",
                                 <<wallet, msgSender, signer, status>>, r)

SetWhitelistedFunction ==
    /\ last = NoReceipt
    /\ \E wallet \in Deployed, msgSender \in Callers, selector \in Selectors,
          status \in BOOLEAN :
        LET r == setWhitelistedFunction(World, wallet, msgSender, selector, status) IN
        /\ Commit(r.w)
        /\ last' = ReturnReceipt("setWhitelistedFunction",
                                 <<wallet, msgSender, selector, status>>, r)

TransferOwnership ==
    /\ last = NoReceipt
    /\ \E wallet \in Deployed, msgSender \in Callers, newOwner \in {ZERO, O1, O2} :
        LET r == transferOwnership(World, wallet, msgSender, newOwner) IN
        /\ Commit(r.w)
        /\ last' = ReturnReceipt("transferOwnership", <<wallet, msgSender, newOwner>>, r)

Withdraw ==
    /\ last = NoReceipt
    /\ \E wallet \in Deployed, msgSender \in Callers, to \in {ZERO, O2, FACTORY},
          amount \in {1, 2} :
        LET r == withdraw(World, wallet, msgSender, to, amount) IN
        /\ Commit(r.w)
        /\ last' = ReturnReceipt("withdraw", <<wallet, msgSender, to, amount>>, r)

NextWallet ==
    \/ TakeReceipt
    \/ CreateWallet
    \/ FundWallet
    \/ Execute
    \/ ExecuteBatch
    \/ SetAuthorizedSigner
    \/ SetWhitelistedFunction
    \/ TransferOwnership
    \/ Withdraw

SpecWallet == Init /\ [][NextWallet]_vars

(***************************************************************************)
(* Resubmission of operations, watched by an observer who indexes the       *)
(* operations executed: consumed holds [hash, times] for the times-th        *)
(* execution of the operation with that hash.                                *)
(***************************************************************************)
ReplayOps ==
    {Signed(UserOp(W1, ExecuteCall(O2, 0, <<>>), NoPaymasterData, <<>>), O1),
     Signed(UserOp(W1, ExecuteCall(O2, 1, <<>>), NoPaymasterData, <<>>), O1)}

ReplayBatches == UNION {[1..n -> ReplayOps] : n \in 1..MaxReplayBatch}

ReplayTxEnvs == {[beneficiary |-> ZERO, gasPrice |-> 1],
                 [beneficiary |-> O2, gasPrice |-> 1]}

\* how many times the observer has seen the operation executed
TimesConsumed(index, op) ==
    Cardinality({c \in index : c.hash = getUserOpHash(op)})

\* the index after the operations from i on have been executed
RECURSIVE Consume(_, _, _)
Consume(index, ops, i) ==
    IF i > Len(ops) THEN index
    ELSE Consume(index \cup {[hash |-> getUserOpHash(ops[i]),
                               times |-> TimesConsumed(index, ops[i]) + 1]},
                 ops, i + 1)

HandleOpsReplay ==
    /\ last = NoReceipt
    /\ \E ops \in ReplayBatches, tx \in ReplayTxEnvs, env \in [1..MaxReplayBatch -> Runs] :
        LET r == handleOps(World, ops, tx.beneficiary, tx.gasPrice, env) IN
        /\ nonce[W1] + Len(ops) <= MaxNonce
        /\ Cardinality(Consume(consumed, ops, 1)) <= MaxConsumed
        /\ \A i \in DOMAIN env : i > Len(ops) => env[i] = [gas |-> 1, oog |-> FALSE]
        /\ CommitChain(r.w)
        /\ consumed' = IF r.status = "ok" THEN Consume(consumed, ops, 1) ELSE consumed
        /\ last' = HandleOpsReceipt(ops, tx.beneficiary, tx.gasPrice,
                                    SubSeq(env, 1, Len(ops)), r)

SpecReplay ==
    Init /\ [][TakeReceipt \/ CreateWallet \/ DepositTo \/ FundWallet
                 \/ HandleOpsReplay]_vars

(***************************************************************************)
(* Calls of the view getUserOpHash                                         *)
(***************************************************************************)
ChainIds == {CHAINID, "chain2"}

\* the fields of a UserOperation
Fields == {"sender", "nonce", "initCode", "callData", "callGasLimit",
           "verificationGasLimit", "preVerificationGas", "maxFeePerGas",
           "maxPriorityFeePerGas", "paymasterAndData", "signature"}

HashBaseOp == Signed(UserOp(W1, ExecuteCall(O2, 0, <<>>), NoPaymasterData, <<>>), O1)

\* another value of every field
HashOtherOp ==
    [sender |-> W2,
     nonce |-> 1,
     initCode |-> <<"initCode">>,
     callData |-> ExecuteCall(O2, 1, <<>>),
     callGasLimit |-> 2,
     verificationGasLimit |-> 2,
     preVerificationGas |-> 1,
     maxFeePerGas |-> 2,
     maxPriorityFeePerGas |-> 1,
     paymasterAndData |-> PaymasterData(PM),
     signature |-> Sign(O2, <<>>)]

\* the operations that differ from HashBaseOp in at most MaxChanged fields
HashOps ==
    {[f \in Fields |-> IF f \in S THEN HashOtherOp[f] ELSE HashBaseOp[f]] :
        S \in {T \in SUBSET Fields : Cardinality(T) <= MaxChanged}}

\* a client computes the hashes of two operations, each by a call of
\* getUserOpHash on the EntryPoint of a chain
GetUserOpHash ==
    /\ last = NoReceipt
    /\ \E a \in HashOps, b \in HashOps, ca \in ChainIds, cb \in ChainIds :
        /\ last' = [NoReceipt EXCEPT
                        !.tx = "getUserOpHash", !.status = "ok",
                        !.args = <<ca, a, cb, b>>,
                        !.returned = <<getUserOpHashOn(ca, a), getUserOpHashOn(cb, b)>>]
        /\ UNCHANGED <<chain, consumed>>

SpecHash == Init /\ [][TakeReceipt \/ GetUserOpHash]_vars

\* batches processed while the owner administers the signers of the wallet
SpecSigner ==
    Init /\ [][TakeReceipt \/ CreateWallet \/ DepositTo \/ HandleOps
                 \/ SetAuthorizedSigner]_vars

(***************************************************************************)
(* The token ledger of the Paymaster, watched by an observer who notes, for *)
(* the latest deposit of a caller that no later deposit or withdrawal of    *)
(* that caller has touched, the caller's balances before it.                *)
(***************************************************************************)
\* the observer's notes about caller
NotesOf(caller) == {n \in consumed : n.caller = caller}

UpdateExchangeRate ==
    /\ last = NoReceipt
    /\ \E msgSender \in {O1, O2}, token \in Tokens, newRate \in Rates \cup {0} :
        LET r == updateExchangeRate(World, msgSender, token, newRate) IN
        /\ Commit(r.w)
        /\ last' = CallReceipt("updateExchangeRate", <<msgSender, token, newRate>>, r)

DepositTokensNoted ==
    /\ last = NoReceipt
    /\ \E msgSender \in {O1, O2}, token \in Tokens, amount \in TokenAmounts :
        LET r == depositTokens(World, msgSender, token, amount) IN
        /\ r.w.userDeposits[msgSender] <= MaxCredit
        /\ CommitChain(r.w)
        /\ consumed' = IF r.ok
                       THEN (consumed \ NotesOf(msgSender))
                                \cup {[caller |-> msgSender, token |-> token,
                                       amount |-> amount,
                                       tokenBalance |-> userTokenBalances[msgSender][token],
                                       deposit |-> userDeposits[msgSender]]}
                       ELSE consumed
        /\ last' = CallReceipt("depositTokens", <<msgSender, token, amount>>, r)

WithdrawTokens ==
    /\ last = NoReceipt
    /\ \E msgSender \in {O1, O2}, token \in Tokens, amount \in TokenAmounts :
        LET r == withdrawTokens(World, msgSender, token, amount) IN
        /\ CommitChain(r.w)
        /\ consumed' = IF r.ok THEN consumed \ NotesOf(msgSender) ELSE consumed
        /\ last' = CallReceipt("withdrawTokens", <<msgSender, token, amount>>, r)

SpecTokens ==
    Init /\ [][TakeReceipt \/ AddSupportedToken \/ UpdateExchangeRate
                 \/ DepositTokensNoted \/ WithdrawTokens]_vars

\* the sponsor's owner, or another caller, removes a token
RemoveSupportedToken ==
    /\ last = NoReceipt
    /\ \E msgSender \in {O1, O2}, token \in Tokens :
        LET r == removeSupportedToken(World, msgSender, token) IN
        /\ Commit(r.w)
        /\ last' = CallReceipt("removeSupportedToken", <<msgSender, token>>, r)

\* the token ledger with the removal of tokens
SpecCustody ==
    Init /\ [][TakeReceipt \/ AddSupportedToken \/ UpdateExchangeRate
                 \/ RemoveSupportedToken \/ DepositTokensNoted
                 \/ WithdrawTokens]_vars

(***************************************************************************)
(* Transactions of the EntryPoint's deposit ledger                         *)
(***************************************************************************)
Depositors == {O1, O2}
Amounts == 0..InitialFunds

\* a transaction calling depositTo(account) with msg.value = value
EntryPointDepositTo ==
    /\ last = NoReceipt
    /\ \E msgSender \in Depositors, account \in Depositors \cup {W1}, value \in Amounts :
        LET r == depositTo(World, msgSender, account, value) IN
        /\ balance[msgSender] >= value
        /\ Commit(r.w)
        /\ last' = CallReceipt("depositTo", <<msgSender, account, value>>, r)

\* a plain transfer of value to the EntryPoint
EntryPointReceive ==
    /\ last = NoReceipt
    /\ \E msgSender \in Depositors, value \in Amounts :
        LET r == receive(World, msgSender, value) IN
        /\ balance[msgSender] >= value
        /\ Commit(r.w)
        /\ last' = CallReceipt("EntryPoint.receive", <<msgSender, value>>, r)

\* a transaction calling withdrawTo(withdrawAddress, amount)
WithdrawTo ==
    /\ last = NoReceipt
    /\ \E msgSender \in Depositors, withdrawAddress \in {O1, O2, FACTORY, EP},
          amount \in Amounts :
        LET r == withdrawTo(World, msgSender, withdrawAddress, amount) IN
        /\ Commit(r.w)
        /\ last' = CallReceipt("withdrawTo", <<msgSender, withdrawAddress, amount>>, r)

SpecDeposits ==
    Init /\ [][TakeReceipt \/ EntryPointDepositTo \/ EntryPointReceive \/ WithdrawTo]_vars

(***************************************************************************)
(* Payments made through a SmartWallet                                     *)
(***************************************************************************)
\* payments of 1 and 2 to O2, a payment the factory refuses, and a payment
\* of the wallet to itself
Payments ==
    {[target |-> O2, value |-> 1, data |-> <<>>],
     [target |-> O2, value |-> 2, data |-> <<>>],
     [target |-> FACTORY, value |-> 1, data |-> <<>>],
     [target |-> W1, value |-> 1, data |-> <<>>]}

PaymentLists == UNION {[1..n -> Payments] : n \in 0..MaxBatch}

ExecutePayment ==
    /\ last = NoReceipt
    /\ \E wallet \in Deployed, msgSender \in {O1, O2}, c \in Payments :
        LET r == execute(World, wallet, msgSender, c.target, c.value, c.data) IN
        /\ nonce[wallet] + 1 <= MaxNonce
        /\ Commit(r.w)
        /\ last' = ReturnReceipt("execute",
                                 <<wallet, msgSender, c.target, c.value, c.data>>, r)

ExecuteBatchPayments ==
    /\ last = NoReceipt
    /\ \E wallet \in Deployed, msgSender \in {O1, O2}, cs \in PaymentLists :
        LET targets == [i \in 1..Len(cs) |-> cs[i].target]
            values == [i \in 1..Len(cs) |-> cs[i].value]
            datas == [i \in 1..Len(cs) |-> cs[i].data]
            r == executeBatch(World, wallet, msgSender, targets, values, datas)
        IN  /\ nonce[wallet] + Len(cs) <= MaxNonce
            /\ Commit(r.w)
            /\ last' = ReturnReceipt("executeBatch",
                                     <<wallet, msgSender, targets, values, datas>>, r)

SpecPayments ==
    Init /\ [][TakeReceipt \/ CreateWallet \/ FundWallet \/ ExecutePayment
                 \/ ExecuteBatchPayments]_vars

(***************************************************************************)
(* Batches of one operation with every kind of paymasterAndData            *)
(***************************************************************************)
SponsorDatas == {NoPaymasterData, ShortPaymasterData, PaymasterData(PM),
                 PaymasterData(O2)}

HandleOpsSponsorData ==
    /\ last = NoReceipt
    /\ \E data \in SponsorDatas, env \in [1..1 -> Runs] :
        LET ops == <<Signed(UserOp(W1, ExecuteCall(O2, 0, <<>>), data, <<>>), O1)>>
        IN  /\ nonce[W1] + 1 <= MaxNonce
            /\ HandleOpsTx(ops, ZERO, 1, env)

SpecSponsorData ==
    Init /\ [][TakeReceipt \/ CreateWallet \/ DepositTo \/ HandleOpsSponsorData]_vars

(***************************************************************************)
(* Calls that carry call data: an account asked to call the EntryPoint or  *)
(* itself, from a batch and by its owner. The account may own itself.      *)
(***************************************************************************)
\* the calls asked of the account W1: withdrawTo, handleOps, its own execute
\* (a payment of 1 to O2) and executeBatch, and a plain payment
NestedCalls ==
    {[target |-> EP, value |-> 0, data |-> <<WITHDRAWTO_SEL, O2, 1>>],
     [target |-> EP, value |-> 0, data |-> <<HANDLEOPS_SEL, O2>>],
     [target |-> W1, value |-> 0, data |-> <<EXECUTE_SEL, O2, 1>>],
     [target |-> W1, value |-> 0, data |-> <<EXECUTEBATCH_SEL>>],
     [target |-> O2, value |-> 1, data |-> <<>>]}

NestedSelectors ==
    {WITHDRAWTO_SEL, HANDLEOPS_SEL, EXECUTE_SEL, EXECUTEBATCH_SEL, LAYOUT_WORD}

\* O1 deposits 2 for the account at the EntryPoint
DepositForAccount ==
    /\ last = NoReceipt
    /\ balance[O1] >= 2
    /\ LET r == depositTo(World, O1, W1, 2) IN
        /\ Commit(r.w)
        /\ last' = CallReceipt("depositTo", <<O1, W1, 2>>, r)

\* O1 sends 1 to the account while the account holds nothing
FundAccount ==
    /\ last = NoReceipt
    /\ balance[O1] >= 1 /\ balance[W1] = 0
    /\ Commit(Transfer(World, O1, W1, 1))
    /\ last' = Receipt("receive", "ok", "")

\* the owner whitelists a selector
WhitelistSelector ==
    /\ last = NoReceipt
    /\ \E selector \in NestedSelectors :
        LET r == setWhitelistedFunction(World, W1, O1, selector, TRUE) IN
        /\ W1 \in code
        /\ Commit(r.w)
        /\ last' = ReturnReceipt("setWhitelistedFunction", <<W1, O1, selector, TRUE>>, r)

\* the owner hands the account to the account itself
OwnItself ==
    /\ last = NoReceipt
    /\ W1 \in code
    /\ LET r == transferOwnership(World, W1, O1, W1) IN
        /\ Commit(r.w)
        /\ last' = ReturnReceipt("transferOwnership", <<W1, O1, W1>>, r)

\* a batch of one operation of W1, signed by O1, that asks for one of the
\* calls through execute or executeBatch
HandleOpsNested ==
    /\ last = NoReceipt
    /\ \E c \in NestedCalls, fn \in {"execute", "executeBatch"}, env \in [1..1 -> Runs] :
        LET callData == IF fn = "execute" THEN ExecuteCall(c.target, c.value, c.data)
                        ELSE ExecuteBatchCall(<<c.target>>, <<c.value>>, <<c.data>>)
            ops == <<Signed(UserOp(W1, callData, NoPaymasterData, <<>>), O1)>>
        IN  /\ nonce[W1] + 1 <= MaxNonce
            /\ HandleOpsTx(ops, O2, 1, env)

\* the owner asks for one of the calls through execute
ExecuteNested ==
    /\ last = NoReceipt
    /\ \E msgSender \in {O1, O2}, c \in NestedCalls :
        LET r == execute(World, W1, msgSender, c.target, c.value, c.data) IN
        /\ W1 \in code
        /\ nonce[W1] + 1 <= MaxNonce
        /\ Commit(r.w)
        /\ last' = ReturnReceipt("execute",
                                 <<W1, msgSender, c.target, c.value, c.data>>, r)

\* the owner asks for one of the calls through executeBatch
ExecuteBatchNested ==
    /\ last = NoReceipt
    /\ \E msgSender \in {O1, O2}, c \in NestedCalls :
        LET r == executeBatch(World, W1, msgSender, <<c.target>>, <<c.value>>,
                              <<c.data>>) IN
        /\ W1 \in code
        /\ nonce[W1] + 1 <= MaxNonce
        /\ Commit(r.w)
        /\ last' = ReturnReceipt("executeBatch",
                                 <<W1, msgSender, <<c.target>>, <<c.value>>,
                                   <<c.data>>>>, r)

SpecNested ==
    Init /\ [][TakeReceipt \/ CreateWallet \/ DepositForAccount \/ FundAccount
                 \/ WhitelistSelector \/ OwnItself \/ HandleOpsNested
                 \/ ExecuteNested \/ ExecuteBatchNested]_vars

(***************************************************************************)
(* A batch whose first operation asks the account to change its own signer *)
(* set; the account may own itself.                                        *)
(***************************************************************************)
\* the owner whitelists the selector of setAuthorizedSigner
WhitelistSetSigner ==
    /\ last = NoReceipt
    /\ W1 \in code
    /\ \E status \in BOOLEAN :
        LET r == setWhitelistedFunction(World, W1, O1, SETSIGNER_SEL, status) IN
        /\ Commit(r.w)
        /\ last' = ReturnReceipt("setWhitelistedFunction",
                                 <<W1, O1, SETSIGNER_SEL, status>>, r)

\* what the first operation asks of W1: to remove the signer O1, to add the
\* signer O2, or a plain call
SignerChanges ==
    {ExecuteCall(W1, 0, <<SETSIGNER_SEL, O1, FALSE>>),
     ExecuteCall(W1, 0, <<SETSIGNER_SEL, O2, TRUE>>),
     ExecuteCall(O2, 0, <<>>)}

\* a batch of two operations of W1, both signed by O1
HandleOpsSignerChange ==
    /\ last = NoReceipt
    /\ \E first \in SignerChanges, env \in [1..2 -> Runs] :
        LET ops == <<Signed(UserOp(W1, first, NoPaymasterData, <<>>), O1),
                     Signed(UserOp(W1, ExecuteCall(O2, 0, <<>>), NoPaymasterData, <<>>),
                            O1)>>
        IN  /\ nonce[W1] + 2 <= MaxNonce
            /\ HandleOpsTx(ops, O2, 1, env)

SpecSignerChange ==
    Init /\ [][TakeReceipt \/ CreateWallet \/ DepositForAccount \/ WhitelistSetSigner
                 \/ OwnItself \/ HandleOpsSignerChange]_vars

Next ==
    \/ TakeReceipt
    \/ CreateWallet
    \/ DepositTo
    \/ FundWallet
    \/ HandleOps

Spec == Init /\ [][Next]_vars

\* with the sponsor's whitelist being administered
SpecSponsor == Init /\ [][Next \/ SetWalletWhitelisted]_vars

(***************************************************************************)
(* Properties of handleOps                                                 *)
(***************************************************************************)
RECURSIVE SumCost(_)
SumCost(events) ==
    IF events = <<>> THEN 0 ELSE Head(events).actualGasCost + SumCost(Tail(events))

RECURSIVE SumDebits(_)
SumDebits(debits) ==
    IF debits = <<>> THEN 0 ELSE Head(debits).amount + SumDebits(Tail(debits))

\* the deposit entry an outcome record says paid for the operation
PayerOf(event) == IF event.paymaster # ZERO THEN event.paymaster ELSE event.sender

\* the sum of the costs the outcome records charge to account a
RECURSIVE Charged(_, _)
Charged(events, a) ==
    IF events = <<>> THEN 0
    ELSE (IF PayerOf(Head(events)) = a THEN Head(events).actualGasCost ELSE 0)
         + Charged(Tail(events), a)

\* the identity recovered from (hash(op), signature) is op.sender or is an
\* authorized signer of the sender account
SignerAccepted(w, op) ==
    LET recovered == recover(toEthSignedMessageHash(getUserOpHash(op)), op.signature)
    IN  \/ recovered = op.sender
        \/ op.sender \in Wallets /\ recovered \in w.authorizedSigners[op.sender]

\* C1: if an operation of a batch fails validation, handleOps reverts: no
\* deposit, balance, counter or account state changes, no operation is
\* dispatched and no outcome record is emitted, also for the operations
\* before the failing one.
C1_ValidationFailureAbortsBatch ==
    [][(last'.tx = "handleOps" /\ last'.validated < Len(last'.ops))
          => /\ last'.status = "reverted"
             /\ last'.events = <<>>
             /\ last'.calls = <<>>
             /\ chain' = chain]_vars

\* a batch of two whose first operation validates and whose second carries
\* an invalid signature
C1_Witness ==
    /\ last.tx = "handleOps"
    /\ Len(last.ops) = 2
    /\ last.validated = 1
    /\ last.reason = "Invalid signature"
    /\ last.status = "reverted"

\* C2 (as claimed): in a batch that passed validation, when the dispatched
\* call of an operation B fails after an operation A succeeded, every
\* operation of the batch has its outcome record and the effects of the
\* successful calls persist (each one counted in its wallet's counter).
C2_FailureIsolated ==
    [][(/\ last'.tx = "handleOps"
        /\ last'.validated = Len(last'.ops)
        /\ \E a, b \in DOMAIN last'.calls :
              a < b /\ last'.calls[a] = "ok" /\ last'.calls[b] = "failed")
          => /\ Len(last'.events) = Len(last'.ops)
             /\ \A wl \in Wallets :
                  nonce'[wl] = nonce[wl]
                      + Cardinality({j \in DOMAIN last'.calls :
                                        /\ last'.calls[j] = "ok"
                                        /\ last'.ops[j].sender = wl
                                        /\ wl \in code})]_vars

\* C3 (as claimed): every outcome record with success = false of a processed
\* batch goes with a debit of its actualGasCost from the payer's deposit.
C3_FailedOpStillDebited ==
    (last.tx = "handleOps" /\ last.status = "ok")
        => \A i \in DOMAIN last.events :
              ~last.events[i].success
                  => last.debits[i] = [account |-> PayerOf(last.events[i]),
                                       amount |-> last.events[i].actualGasCost]

\* C4: a handleOps transaction ends either with exactly one outcome record
\* per operation, in order, or reverted with a reason and no outcome record.
C4_OneRecordPerOpOrAbort ==
    last.tx = "handleOps"
        => \/ /\ last.status = "ok"
              /\ Len(last.events) = Len(last.ops)
              /\ \A i \in DOMAIN last.ops :
                    /\ last.events[i].userOpHash = getUserOpHash(last.ops[i])
                    /\ last.events[i].sender = last.ops[i].sender
                    /\ last.events[i].nonce = last.ops[i].nonce
           \/ /\ last.status = "reverted"
              /\ last.reason # ""
              /\ last.events = <<>>

\* a processed batch of two, one of whose dispatches was caught reverting
C4_Witness ==
    /\ last.tx = "handleOps"
    /\ last.status = "ok"
    /\ Len(last.events) = 2
    /\ \E i \in DOMAIN last.calls : last.calls[i] = "reverted"

C5Holds(w, r) ==
    /\ \A i \in 1..r.validated : SignerAccepted(w, r.ops[i])
    /\ (r.validated < Len(r.ops) /\ ~SignerAccepted(w, r.ops[r.validated + 1]))
          => r.reason = "Invalid signature"

\* C5 (as claimed): an operation passes validation only if the recovered
\* identity is op.sender or an authorized signer of the sender account, and
\* a batch stopped by an operation signed by anyone else reverts with the
\* reason "Invalid signature".
C5_SignerCheck == [][last'.tx = "handleOps" => C5Holds(World, last')]_vars

C6Holds(w, r) ==
    LET op == r.ops[1]
        sponsored == op.paymasterAndData.len > 0
        relevant == IF sponsored THEN w.deposits[op.paymasterAndData.first20]
                    ELSE w.deposits[op.sender]
    IN  (/\ Len(r.ops) > 0
         /\ SignerAccepted(w, op)
         /\ op.sender \in w.code
         /\ sponsored => op.paymasterAndData.first20 \in w.code)
            => (r.validated >= 1 <=> relevant >= Prefund(op))

\* C6 (as claimed): the solvency check of an otherwise valid operation
\* compares prefund with the sponsor's deposit when the operation is
\* sponsored, else with the sender's: the operation validates exactly when
\* that deposit covers prefund.
C6_SolvencyAgainstPayer == [][last'.tx = "handleOps" => C6Holds(World, last')]_vars

\* C7 (as claimed): a processed batch changes the deposits by exactly the
\* actualGasCost of every operation, taken from the sponsor's entry when the
\* operation is sponsored and from the sender's otherwise, and nothing else.
C7_DebitsExactlyActualCost ==
    [][(last'.tx = "handleOps" /\ last'.status = "ok")
          => \A a \in Addr :
                deposits'[a] = deposits[a] - Charged(last'.events, a)]_vars

\* C8 (as claimed): the amount paid to the beneficiary is the sum of the
\* actualGasCost of the batch and is the total debited from the deposits;
\* nothing is paid to the zero beneficiary or when the sum is zero.
C8_BeneficiaryGetsWhatWasDebited ==
    (last.tx = "handleOps" /\ last.status = "ok")
        => /\ last.paid = IF last.beneficiary = ZERO THEN 0
                          ELSE SumCost(last.events)
           /\ last.paid > 0 => last.paid = SumDebits(last.debits)

\* C9 (as claimed): once every operation of the batch has passed validation
\* handleOps does not revert and every operation gets its outcome record.
C9_NeverAbortsAfterValidation ==
    (last.tx = "handleOps" /\ last.validated = Len(last.ops))
        => /\ last.status = "ok"
           /\ Len(last.events) = Len(last.ops)

\* C10 (as claimed): an operation naming a sponsor passes validation only if
\* its sender is in the sponsor's whitelist, and the sponsor's deposit is
\* debited only for whitelisted senders.
C10_SponsorWhitelistEnforced ==
    last.tx = "handleOps"
        => /\ \A i \in 1..last.validated :
                 last.ops[i].paymasterAndData.len > 0
                    => last.ops[i].sender \in walletWhitelisted
           /\ \A i \in DOMAIN last.debits :
                 (last.debits[i].account = PM /\ last.debits[i].amount > 0)
                    => last.events[i].sender \in walletWhitelisted

(***************************************************************************)
(* Properties of the Paymaster                                             *)
(***************************************************************************)
\* Paymaster.postOp, when it succeeds, debits the larger of actualGasCost and
\* requiredPreFund from userDeposits[sender] and nothing else (checked under
\* SpecPaymaster)
PostOpDebitsMax ==
    [][(last'.tx = "postOp" /\ last'.status = "ok")
          => LET sender == last'.args[2]
                 requiredPreFund == last'.args[3]
                 actualGasCost == last'.args[4]
             IN  /\ last'.args[1] = PaymasterEntryPoint
                 /\ userDeposits' = [userDeposits EXCEPT
                        ![sender] = @ - Max(actualGasCost, requiredPreFund)]
                 /\ userDeposits[sender] - userDeposits'[sender] >= requiredPreFund]_vars

\* a postOp that cost less than the prefund and debited the prefund
PostOpDebitsMax_Witness ==
    /\ last.tx = "postOp"
    /\ last.status = "ok"
    /\ last.args[4] < last.args[3]

\* C11 (as claimed): the token sponsor's postOp debits max(actualGasCost,
\* requiredPreFund) from the sponsored account's converted deposit, and the
\* settlement of handleOps debits exactly actualGasCost from the sponsor's
\* deposit for every sponsored operation it settles.
C11_TokenSponsorDebitsMaxEthSponsorExact ==
    [][/\ (last'.tx = "postOp" /\ last'.status = "ok")
          => userDeposits' = [userDeposits EXCEPT
                 ![last'.args[2]] = @ - Max(last'.args[4], last'.args[3])]
       /\ (last'.tx = "handleOps" /\ last'.status = "ok")
          => \A i \in DOMAIN last'.events :
                last'.events[i].paymaster # ZERO
                    => deposits' = [deposits EXCEPT
                          ![last'.events[i].paymaster] =
                              @ - last'.events[i].actualGasCost]]_vars

(***************************************************************************)
(* Properties of the SmartWalletFactory                                    *)
(***************************************************************************)
\* C12 (as claimed): createWallet(owner, entryPoint, salt) returns the identity
\* getWalletAddress computes for the same inputs, whether or not the account
\* is already deployed.
C12_CreateWalletReturnsComputedAddress ==
    [][(/\ last'.tx = "createWallet"
        /\ last'.args[1] # ZERO
        /\ last'.args[2] # ZERO)
          => last'.returned = <<getWalletAddress(last'.args[1], last'.args[2],
                                                 last'.args[3])>>]_vars

\* C13 (as claimed): createWallet for an account that is already deployed
\* does not fail, leaves the account and everything else as it is, and
\* returns the account's identity.
C13_CreateWalletIdempotent ==
    [][(/\ last'.tx = "createWallet"
        /\ last'.args[1] # ZERO
        /\ last'.args[2] # ZERO
        /\ getWalletAddress(last'.args[1], last'.args[2], last'.args[3]) \in code)
          => /\ last'.status = "ok"
             /\ chain' = chain
             /\ last'.returned = <<getWalletAddress(last'.args[1], last'.args[2],
                                                    last'.args[3])>>]_vars

\* the identities createWalletBatch deploys at
BatchAddresses(owners, entryPoint_, salts) ==
    [i \in 1..Len(owners) |-> getWalletAddress(owners[i], entryPoint_, salts[i])]

\* C14: createWalletBatch reverts when the two arrays differ in length and
\* when an entry has the zero owner or an identity that already has code
\* (before the call or by an earlier entry); a reverted call leaves no
\* account deployed and no record; a successful call deploys every entry and
\* emits one WalletCreated per entry, in index order.
C14_CreateWalletBatchAtomic ==
    [][last'.tx = "createWalletBatch"
          => LET owners == last'.args[1]
                 e == last'.args[2]
                 salts == last'.args[3]
                 at == BatchAddresses(owners, e, salts)
                 rejected ==
                     \/ Len(owners) # Len(salts)
                     \/ e = ZERO
                     \/ \E i \in DOMAIN owners : owners[i] = ZERO \/ at[i] \in code
                     \/ \E i, j \in DOMAIN owners : i < j /\ at[i] = at[j]
             IN  IF rejected
                 THEN /\ last'.status = "reverted"
                      /\ last'.events = <<>>
                      /\ chain' = chain
                 ELSE /\ last'.status = "ok"
                      /\ last'.returned = at
                      /\ last'.events =
                            [i \in DOMAIN owners |-> WalletCreated(at[i], owners[i], e)]
                      /\ code' = code \cup {at[i] : i \in DOMAIN owners}
                      /\ \A i \in DOMAIN owners :
                            /\ owner'[at[i]] = owners[i]
                            /\ entryPoint'[at[i]] = e]_vars

\* a batch of two whose first entry could be deployed and whose second entry
\* is rejected
C14_Witness ==
    /\ last.tx = "createWalletBatch"
    /\ last.status = "reverted"
    /\ Len(last.args[1]) = 2
    /\ Len(last.args[3]) = 2
    /\ last.args[2] # ZERO
    /\ last.args[1][1] # ZERO
    /\ getWalletAddress(last.args[1][1], last.args[2], last.args[3][1]) \notin code
    /\ last.reason \in {"Invalid owner", "Create2: Failed on deploy"}

(***************************************************************************)
(* Properties of the SmartWallet                                           *)
(***************************************************************************)
WalletAdminTxs ==
    {"setAuthorizedSigner", "setWhitelistedFunction", "transferOwnership", "withdraw"}

\* C15 (as claimed): a call through execute is rejected with "Function not
\* whitelisted" while its selector is not whitelisted, and is not rejected
\* for that reason while its selector is whitelisted; while nothing at all is
\* whitelisted no call goes through, a call with empty data included.
C15_WhitelistRoundTrip ==
    [][(/\ last'.tx = "execute"
        /\ onlyEntryPointOrOwner(World, last'.args[1], last'.args[2])
        /\ last'.args[3] # ZERO)
          => LET wallet == last'.args[1]
                 data == last'.args[5]
                 rejected == /\ last'.status = "reverted"
                             /\ last'.reason = "Function not whitelisted"
             IN  /\ whitelistedFunctions[wallet] = {} => last'.status = "reverted"
                 /\ (data # <<>> /\ data[1] \notin whitelistedFunctions[wallet])
                        => rejected
                 /\ (data # <<>> /\ data[1] \in whitelistedFunctions[wallet])
                        => ~rejected]_vars

\* C16: a call of execute or executeBatch by anyone but the wallet's
\* entryPoint or its current owner reverts and changes nothing: not the
\* counter, not the wallet's funds, not the target.
C16_ExecuteOnlyEntryPointOrOwner ==
    [][(/\ last'.tx \in {"execute", "executeBatch"}
        /\ last'.args[2] # entryPoint[last'.args[1]]
        /\ last'.args[2] # owner[last'.args[1]])
          => /\ last'.status = "reverted"
             /\ last'.reason = "Only EntryPoint or owner"
             /\ last'.events = <<>>
             /\ chain' = chain]_vars

\* a payment the funded wallet could make, asked for by a stranger and
\* rejected
C16_Witness ==
    /\ last.tx = "execute"
    /\ last.args[2] = O2
    /\ owner[last.args[1]] = O1
    /\ last.status = "reverted"
    /\ balance[last.args[1]] >= 1
    /\ last.args[3] = O2
    /\ last.args[4] = 1

\* C17: setAuthorizedSigner, setWhitelistedFunction, transferOwnership and
\* withdraw called by anyone but the wallet's current owner (the entryPoint
\* and a former owner included) revert and change nothing; a call that
\* succeeds was made by the current owner.
C17_AdminOnlyOwner ==
    [][(/\ last'.tx \in WalletAdminTxs
        /\ last'.args[2] # owner[last'.args[1]])
          => /\ last'.status = "reverted"
             /\ last'.reason = "Only owner"
             /\ last'.events = <<>>
             /\ chain' = chain]_vars

\* the former owner O1, after the ownership went to O2, is rejected
C17_Witness ==
    /\ last.tx \in WalletAdminTxs
    /\ last.args[2] = O1
    /\ owner[last.args[1]] = O2
    /\ last.status = "reverted"
    /\ last.reason = "Only owner"

\* C18 (as claimed): a successful setAuthorizedSigner, setWhitelistedFunction
\* or transferOwnership (to another owner) emits exactly one change record.
C18_AdminChangeEmitsRecord ==
    (/\ last.tx \in {"setAuthorizedSigner", "setWhitelistedFunction",
                     "transferOwnership"}
     /\ last.tx = "transferOwnership" => last.args[3] # last.args[2]
     /\ last.status = "ok")
        => Len(last.events) = 1

\* the calls a list of success flags counts as forwarded successfully
Successes(flags) == Cardinality({i \in DOMAIN flags : flags[i]})

\* C19 (as claimed): the counter of a wallet grows by exactly the number of
\* calls the wallet forwarded successfully in the transaction, and by
\* nothing for a call that fails.
C19_CounterCountsSuccessfulCalls ==
    [][\A wallet \in Wallets :
          nonce'[wallet] = nonce[wallet]
              + (IF last'.tx \in {"execute", "executeBatch"} /\ last'.args[1] = wallet
                 THEN Successes(last'.returned)
                 ELSE 0)]_vars

(***************************************************************************)
(* Replay                                                                  *)
(***************************************************************************)
\* operation i of the batch was executed before: in an earlier batch, or
\* earlier in this batch
Resubmitted(index, ops, i) ==
    \/ TimesConsumed(index, ops[i]) > 0
    \/ \E j \in 1..(i - 1) : ops[j] = ops[i]

SameButSignature(a, b) == [a EXCEPT !.signature = b.signature] = b

\* C21: the hash of an operation is a function of the operation and the
\* chain: two operations on the same chain that differ only in the signature
\* have the same hash, and two that differ in any other field, or are hashed
\* on different chains, have different hashes.
C21_HashCoversAllButSignature ==
    last.tx = "getUserOpHash" =>
        LET ca == last.args[1]
            a == last.args[2]
            cb == last.args[3]
            b == last.args[4]
        IN  /\ last.returned[1] = getUserOpHashOn(ca, a)
            /\ (last.returned[1] = last.returned[2])
                    <=> (SameButSignature(a, b) /\ ca = cb)

\* two operations with different signatures and nothing else different,
\* hashed on one chain
C21_Witness ==
    /\ last.tx = "getUserOpHash"
    /\ last.args[1] = last.args[3]
    /\ last.args[2].signature # last.args[4].signature
    /\ SameButSignature(last.args[2], last.args[4])
    /\ last.args[2].paymasterAndData = PaymasterData(PM)
    /\ last.returned[1] = last.returned[2]

(***************************************************************************)
(* Properties of the authorized signers                                    *)
(***************************************************************************)
\* the operations of the batch signed, over their own hash, by a signer that
\* is not the sender, the sender being a deployed wallet
SignedByOther(ops) ==
    {i \in 1..Len(ops) :
        /\ ops[i].sender \in Deployed
        /\ ops[i].signature.signer # ops[i].sender
        /\ ops[i] = Signed(ops[i], ops[i].signature.signer)}

\* the signature check rejected operation i of the batch of receipt r
SignatureRejected(r, i) ==
    /\ r.status = "reverted"
    /\ r.validated = i - 1
    /\ r.reason \in {"Invalid signature", "revert without reason"}

\* C22 (as claimed): a batch that holds an operation signed by a signer not
\* in the sender's set of authorized signers aborts with "Invalid signature".
C22_UnauthorizedSignerAbortsWithInvalidSignature ==
    [][(last'.tx = "handleOps")
          => \A i \in SignedByOther(last'.ops) :
                ~isValidSigner(World, last'.ops[i].sender, last'.ops[i].signature.signer)
                    => /\ last'.status = "reverted"
                       /\ last'.reason = "Invalid signature"]_vars

\* C22: after a successful setAuthorizedSigner(s, status), isValidSigner(s)
\* is status, and isValidSigner is membership in the set. A batch that holds
\* an operation signed by a signer s that is not in the sender's set aborts
\* in the validation pass, at that operation or before it, and with "Invalid
\* signature" when it is the first one that fails validation; when s is in
\* the set the operation is not rejected by the signature check.
C22_SignerChangesVisible ==
    [][/\ (last'.tx = "setAuthorizedSigner" /\ last'.status = "ok")
          => /\ isValidSigner(World', last'.args[1], last'.args[3]) = last'.args[4]
             /\ \A s \in Addr :
                    isValidSigner(World', last'.args[1], s)
                        <=> s \in authorizedSigners'[last'.args[1]]
       /\ (last'.tx = "handleOps")
          => \A i \in SignedByOther(last'.ops) :
                LET s == last'.ops[i].signature.signer
                    sender == last'.ops[i].sender
                IN  IF s \in authorizedSigners[sender]
                    THEN ~SignatureRejected(last', i)
                    ELSE /\ last'.status = "reverted"
                         /\ last'.validated < i
                         /\ last'.validated = i - 1 => last'.reason = "Invalid signature"
                         /\ chain' = chain]_vars

\* a batch of one operation signed by O2 for the wallet W1 passes validation:
\* the owner has authorized O2
C22_Witness ==
    /\ last.tx = "handleOps"
    /\ Len(last.ops) = 1
    /\ SignedByOther(last.ops) = {1}
    /\ last.ops[1].signature.signer = O2
    /\ O2 \in authorizedSigners[W1]
    /\ last.validated = 1
    /\ last.status = "ok"

(***************************************************************************)
(* Properties of the Paymaster's token ledger                              *)
(***************************************************************************)
\* C23: depositTokens(token, amount) succeeds only for a supported token and
\* an amount of at least minDepositAmount; a successful call adds amount to
\* userTokenBalances[caller][token] and floor(amount * rate / RATE_DENOMINATOR)
\* to userDeposits[caller] and leaves the balances of every other depositor
\* alone; a rejected call changes nothing.
C23_DepositTokensCredits ==
    [][(last'.tx = "depositTokens")
          => LET caller == last'.args[1]
                 token == last'.args[2]
                 amount == last'.args[3]
             IN  IF last'.status = "ok"
                 THEN /\ token \in supportedTokens
                      /\ amount >= minDepositAmount
                      /\ userTokenBalances'[caller][token]
                            = userTokenBalances[caller][token] + amount
                      /\ userDeposits'[caller]
                            = userDeposits[caller]
                                + (amount * tokenExchangeRate[token]) \div RATE_DENOMINATOR
                      /\ \A t \in Tokens \ {token} :
                            userTokenBalances'[caller][t] = userTokenBalances[caller][t]
                      /\ \A a \in Addr \ {caller} :
                            /\ userTokenBalances'[a] = userTokenBalances[a]
                            /\ userDeposits'[a] = userDeposits[a]
                 ELSE chain' = chain]_vars

\* a deposit of three tokens at the rate of one half: the credit is rounded
\* down to one
C23_Witness ==
    /\ last.tx = "depositTokens"
    /\ last.status = "ok"
    /\ last.args = <<O1, TOKEN, 3>>
    /\ tokenExchangeRate[TOKEN] = 1
    /\ userTokenBalances[O1][TOKEN] = 3
    /\ userDeposits[O1] = 1

\* C24 (as claimed): withdrawTokens succeeds only when the caller's token
\* balance covers amount and the caller's converted deposit covers the
\* converted value, and a successful withdrawTokens(token, amount) that
\* follows the caller's depositTokens(token, amount) returns
\* userTokenBalances[caller][token] and userDeposits[caller] to their values
\* before the deposit.
C24_WithdrawTokensInverse ==
    [][(last'.tx = "withdrawTokens" /\ last'.status = "ok")
          => LET caller == last'.args[1]
                 token == last'.args[2]
                 amount == last'.args[3]
             IN  /\ userTokenBalances[caller][token] >= amount
                 /\ userDeposits[caller]
                        >= (amount * tokenExchangeRate[token]) \div RATE_DENOMINATOR
                 /\ \A n \in NotesOf(caller) :
                        (n.token = token /\ n.amount = amount)
                            => /\ userTokenBalances'[caller][token] = n.tokenBalance
                               /\ userDeposits'[caller] = n.deposit]_vars

(***************************************************************************)
(* Properties of the sponsor's hooks                                       *)
(***************************************************************************)
\* the operations of the batch sponsored by the Paymaster
SponsoredByPaymaster(ops) ==
    {i \in 1..Len(ops) :
        ops[i].paymasterAndData.len >= 20 /\ ops[i].paymasterAndData.first20 = PM}

\* C25 (as claimed): validatePaymasterUserOp and postOp succeed only when
\* called by the EntryPoint; validatePaymasterUserOp changes nothing and
\* returns the context (sender, requiredPreFund); and a processed batch has
\* had postOp called for each of its operations sponsored by the Paymaster,
\* which shows as the sender's UserDepositUpdated record.
C25_SponsorHooksCalledByEntryPoint ==
    [][/\ (last'.tx \in {"validatePaymasterUserOp", "postOp"} /\ last'.status = "ok")
          => last'.args[1] = PaymasterEntryPoint
       /\ (last'.tx = "validatePaymasterUserOp")
          => /\ chain' = chain
             /\ last'.status = "ok"
                   => last'.returned = Context(last'.args[2], last'.args[3])
       /\ (last'.tx = "handleOps" /\ last'.status = "ok")
          => \A i \in SponsoredByPaymaster(last'.ops) :
                \E k \in DOMAIN last'.events :
                    /\ "event" \in DOMAIN last'.events[k]
                    /\ last'.events[k].event = "UserDepositUpdated"
                    /\ last'.events[k].user = last'.ops[i].sender]_vars

(***************************************************************************)
(* Properties of the EntryPoint's deposit ledger                           *)
(***************************************************************************)
\* C26: depositTo(account) with value v adds exactly v to deposits[account],
\* a plain transfer of v adds exactly v to the deposit of its sender, and
\* neither changes another deposit; withdrawTo(to, amount) takes exactly
\* amount from deposits[caller] and hands it to the address to when the
\* deposit covers it and the transfer succeeds, and is rejected with the
\* whole state unchanged when the deposit does not cover it or the transfer
\* fails.
C26_DepositLedgerExact ==
    [][/\ (last'.tx = "depositTo")
          => /\ last'.status = "ok"
             /\ deposits' = [deposits EXCEPT ![last'.args[2]] = @ + last'.args[3]]
       /\ (last'.tx = "EntryPoint.receive")
          => /\ last'.status = "ok"
             /\ deposits' = [deposits EXCEPT ![last'.args[1]] = @ + last'.args[2]]
       /\ (last'.tx = "withdrawTo")
          => LET caller == last'.args[1]
                 to == last'.args[2]
                 amount == last'.args[3]
                 sends == balance[EP] >= amount /\ CallAccepted(World, to, <<>>)
             IN  IF deposits[caller] >= amount /\ sends
                 THEN /\ last'.status = "ok"
                      /\ deposits'[caller] = deposits[caller] - amount
                      /\ \A a \in Addr \ {caller, to} : deposits'[a] = deposits[a]
                      /\ to # EP => balance'[to] = balance[to] + amount
                 ELSE /\ last'.status = "reverted"
                      /\ chain' = chain]_vars

\* O1 has withdrawn 2 of a deposit of 3 to O2
C26_Witness ==
    /\ last.tx = "withdrawTo"
    /\ last.status = "ok"
    /\ last.args = <<O1, O2, 2>>
    /\ deposits[O1] = 1
    /\ balance[O2] = 2
    /\ balance[EP] = 1

(***************************************************************************)
(* Properties of the report of a validation failure                        *)
(***************************************************************************)
\* the reason the failure of operation op is reported with, by its class
ReasonOfClass(w, op) ==
    IF ~SignerAccepted(w, op) THEN "Invalid signature"
    ELSE IF w.deposits[op.sender] < Prefund(op) THEN "Insufficient balance for gas"
    ELSE IF op.initCode = <<>> /\ op.sender \notin w.code THEN "Account not deployed"
    ELSE "Invalid paymaster"

\* C27 (as claimed): when the validation pass aborts a batch, what the caller
\* receives holds the index of the failing operation and the reason of the
\* class of the failure: invalid signature, insufficient balance, account not
\* deployed, invalid sponsor.
C27_AbortReportsIndexAndReason ==
    (last.tx = "handleOps" /\ last.validated < Len(last.ops))
        => LET data == RevertData(last.reason)
           IN  /\ data.reason = ReasonOfClass(World, last.ops[last.validated + 1])
               /\ "opIndex" \in DOMAIN data
               /\ data.opIndex = last.validated

(***************************************************************************)
(* Properties of the payments of a SmartWallet                             *)
(***************************************************************************)
\* the sum of values[i] over the entries from i on that paid is TRUE for
RECURSIVE SumValues(_, _, _)
SumValues(values, paid(_), i) ==
    IF i > Len(values) THEN 0
    ELSE (IF paid(i) THEN values[i] ELSE 0) + SumValues(values, paid, i + 1)

\* the balances after the wallet has paid values[i] to targets[i] for every
\* entry i that moved(i) is TRUE for
BalancesAfter(wallet, targets, values, moved(_)) ==
    [a \in Addr |->
        LET to(i) == moved(i) /\ targets[i] = a
        IN  balance[a] + SumValues(values, to, 1)
                - (IF a = wallet THEN SumValues(values, moved, 1) ELSE 0)]

\* C28 (as claimed): a successful execute(target, value, data) raises the
\* balance of target by value and lowers the wallet's by value, and an
\* executeBatch that completes has moved values[i] to targets[i] for every
\* entry i.
C28_CompletedCallMovesEveryValue ==
    [][/\ (last'.tx = "execute" /\ last'.status = "ok")
          => /\ balance'[last'.args[3]] = balance[last'.args[3]] + last'.args[4]
             /\ balance'[last'.args[1]] = balance[last'.args[1]] - last'.args[4]
       /\ (last'.tx = "executeBatch" /\ last'.status = "ok")
          => LET all(i) == TRUE
             IN  balance' = BalancesAfter(last'.args[1], last'.args[3], last'.args[4],
                                          all)]_vars

\* C28: a successful execute(target, value, data) moves exactly value from
\* the wallet to target (when the target is the wallet itself its balance is
\* what it was), and an executeBatch that completes has moved values[i] to
\* targets[i] for exactly the entries i it reports as successful; no other
\* balance changes.
C28_SuccessfulCallsMoveValue ==
    [][/\ (last'.tx = "execute" /\ last'.status = "ok")
          => LET one(i) == TRUE
             IN  balance' = BalancesAfter(last'.args[1], <<last'.args[3]>>,
                                          <<last'.args[4]>>, one)
       /\ (last'.tx = "executeBatch" /\ last'.status = "ok")
          => LET success(i) == last'.returned[i]
             IN  /\ Len(last'.returned) = Len(last'.args[3])
                 /\ balance' = BalancesAfter(last'.args[1], last'.args[3],
                                              last'.args[4], success)]_vars

\* a batch of two payments has completed: the first was made, the second
\* was refused by its target
C28_Witness ==
    /\ last.tx = "executeBatch"
    /\ last.status = "ok"
    /\ last.args[3] = <<O2, FACTORY>>
    /\ last.args[4] = <<2, 1>>
    /\ last.returned = <<TRUE, FALSE>>
    /\ balance[O2] = 2
    /\ balance[FACTORY] = 0

(***************************************************************************)
(* Properties of a created account                                         *)
(***************************************************************************)
\* C29: an account created by createWallet(owner, entryPoint, salt) has that
\* owner and that entryPoint and has the owner as an authorized signer; its
\* identity had no code before and is not the identity of the same owner and
\* entryPoint with another salt; and createWallet succeeds whenever owner and
\* entryPoint are not zero and no account was created yet with the same
\* owner, entryPoint and salt, also when the owner has an account of another
\* salt.
C29_CreatedAccountInitialized ==
    [][(last'.tx = "createWallet")
          => LET o == last'.args[1]
                 e == last'.args[2]
                 salt == last'.args[3]
             IN  /\ (o # ZERO /\ e # ZERO /\ getWalletAddress(o, e, salt) \notin code)
                        => last'.status = "ok"
                 /\ last'.status = "ok"
                        => LET wallet == last'.returned[1]
                           IN  /\ wallet \in code' \ code
                               /\ owner'[wallet] = o
                               /\ entryPoint'[wallet] = e
                               /\ isValidSigner(World', wallet, o)
                               /\ \A s \in Salts \ {salt} :
                                      wallet # getWalletAddress(o, e, s)
                               /\ \A a \in code \cap Wallets :
                                      /\ owner'[a] = owner[a]
                                      /\ entryPoint'[a] = entryPoint[a]]_vars

\* the second account of O1, created with another salt, next to the first
C29_Witness ==
    /\ last.tx = "createWallet"
    /\ last.status = "ok"
    /\ last.args = <<O1, EP, SALT2>>
    /\ {W1, W3} \subseteq code
    /\ last.returned = <<W3>>
    /\ owner[W1] = O1
    /\ owner[W3] = O1
    /\ entryPoint[W3] = EP
    /\ O1 \in authorizedSigners[W3]

(***************************************************************************)
(* Properties of the solvency check within a batch                         *)
(***************************************************************************)
\* who pays for the operation: its sponsor, or its sender
PayerOfOp(op) ==
    IF op.paymasterAndData.len >= 20 THEN op.paymasterAndData.first20 ELSE op.sender

\* what the batch has debited from account a before it executes operation i
RECURSIVE DebitedBefore(_, _, _)
DebitedBefore(debits, a, i) ==
    IF i <= 1 THEN 0
    ELSE DebitedBefore(debits, a, i - 1)
            + (IF debits[i - 1].account = a THEN debits[i - 1].amount ELSE 0)

\* C30 (as claimed): two operations of a batch that share a payer whose
\* deposit covers the prefund of one and not of both are not both accepted
\* by the validation pass; and when an operation of a processed batch
\* executes, the deposit of its payer, less what the earlier operations of
\* the batch were debited, is at least its prefund.
C30_SolvencyAgainstRunningBalance ==
    [][(last'.tx = "handleOps")
          => LET ops == last'.ops IN
             /\ \A i, j \in DOMAIN ops :
                    (/\ i < j
                     /\ PayerOfOp(ops[i]) = PayerOfOp(ops[j])
                     /\ deposits[PayerOfOp(ops[i])] < Prefund(ops[i]) + Prefund(ops[j]))
                        => last'.validated < j
             /\ last'.status = "ok"
                    => \A i \in DOMAIN ops :
                          deposits[PayerOfOp(ops[i])]
                                - DebitedBefore(last'.debits, PayerOfOp(ops[i]), i)
                              >= Prefund(ops[i])]_vars

(***************************************************************************)
(* Properties of the sponsor named by an operation                         *)
(***************************************************************************)
\* C31 (as claimed): an operation with non-empty paymasterAndData is treated
\* as sponsored by the identity in its first 20 bytes, whatever the length:
\* when its signature and prefund check pass and its sender is deployed, the
\* batch aborts with "Invalid paymaster" if that identity has no code, and
\* in a processed batch the operation's outcome record names the sponsor
\* and its cost is debited from the sponsor's deposit.
C31_NonEmptySponsorDataIsSponsored ==
    [][(last'.tx = "handleOps")
          => \A i \in DOMAIN last'.ops :
                LET op == last'.ops[i]
                    sponsor == op.paymasterAndData.first20
                IN  (op.paymasterAndData.len > 0)
                      => /\ (/\ last'.validated >= i - 1
                             /\ _validatePrepayment(World, op) = ""
                             /\ op.sender \in code
                             /\ sponsor \notin code)
                                => /\ last'.status = "reverted"
                                   /\ last'.reason = "Invalid paymaster"
                         /\ last'.status = "ok"
                                => /\ last'.events[i].paymaster = sponsor
                                   /\ last'.debits[i].account = sponsor]_vars

(***************************************************************************)
(* Properties of the entries of executeBatch                               *)
(***************************************************************************)
\* C32: an executeBatch of payments called by the owner or the entryPoint
\* completes whether or not its calls succeed. successes[i] is true exactly
\* when the call of entry i succeeded: the target accepts the payment and
\* the wallet, after the payments of the earlier successful entries, holds
\* values[i]. The payments of the successful entries before and after a
\* failed one are made, every entry has its execution record and counts in
\* the counter.
C32_BatchEntryFailureIsolated ==
    [][(/\ last'.tx = "executeBatch"
        /\ onlyEntryPointOrOwner(World, last'.args[1], last'.args[2])
        /\ \A i \in DOMAIN last'.args[3] :
              last'.args[3][i] # ZERO /\ last'.args[5][i] = <<>>)
          => LET wallet == last'.args[1]
                 targets == last'.args[3]
                 values == last'.args[4]
                 successes == last'.returned
                 funds(i) ==
                     LET paidOut(k) == k < i /\ successes[k] /\ targets[k] # wallet
                     IN  balance[wallet] - SumValues(values, paidOut, 1)
                 success(i) == successes[i]
             IN  /\ last'.status = "ok"
                 /\ Len(successes) = Len(targets)
                 /\ \A i \in DOMAIN targets :
                        successes[i] <=> (/\ funds(i) >= values[i]
                                          /\ CallAccepted(World, targets[i], <<>>))
                 /\ balance' = BalancesAfter(wallet, targets, values, success)
                 /\ last'.events = [i \in DOMAIN targets |->
                                        TransactionExecuted(targets[i], values[i], <<>>)]
                 /\ nonce'[wallet] = nonce[wallet] + Len(targets)]_vars

\* a batch of two payments has completed: the first was refused by its
\* target, the second was made
C32_Witness ==
    /\ last.tx = "executeBatch"
    /\ last.status = "ok"
    /\ last.args[3] = <<FACTORY, O2>>
    /\ last.args[4] = <<1, 2>>
    /\ last.returned = <<FALSE, TRUE>>
    /\ balance[O2] = 2
    /\ nonce[W1] = 2

\* C33 (as claimed): for every (target, value, data), executeBatch of the
\* one entry is rejected with "Function not whitelisted" exactly when
\* execute(target, value, data) is.
C33_BatchWhitelistAsExecute ==
    [][(/\ last'.tx = "executeBatch"
        /\ Len(last'.args[3]) = 1
        /\ Len(last'.args[4]) = 1)
          => LET one == execute(World, last'.args[1], last'.args[2], last'.args[3][1],
                                last'.args[4][1], last'.args[5][1])
             IN  (last'.status = "reverted" /\ last'.reason = "Function not whitelisted")
                    <=> (~one.ok /\ one.reason = "Function not whitelisted")]_vars

(***************************************************************************)
(* Properties of the EntryPoint's funds                                    *)
(***************************************************************************)
\* the sum of f over the set S
RECURSIVE SumOver(_, _)
SumOver(f, S) ==
    IF S = {} THEN 0
    ELSE LET a == CHOOSE x \in S : TRUE IN f[a] + SumOver(f, S \ {a})

\* C34 (as claimed): in every reachable state the deposits sum to at most
\* the native funds the EntryPoint holds, and a processed handleOps has paid
\* the beneficiary no more than it debited from the deposits.
C34_LedgerSolvent ==
    /\ SumOver(deposits, Addr) <= balance[EP]
    /\ (last.tx = "handleOps" /\ last.status = "ok")
          => last.paid <= SumDebits(last.debits)

(***************************************************************************)
(* Properties of re-entrant calls                                          *)
(***************************************************************************)
\* the call re-enters the EntryPoint through handleOps or withdrawTo
ReentersEntryPoint(target, data) ==
    target = EP /\ data # <<>> /\ data[1] \in {HANDLEOPS_SEL, WITHDRAWTO_SEL}

\* the call re-enters the account through execute or executeBatch
ReentersAccount(wallet, target, data) ==
    target = wallet /\ data # <<>> /\ data[1] \in {EXECUTE_SEL, EXECUTEBATCH_SEL}

\* C35: while handleOps runs, a call of handleOps or withdrawTo made by a
\* dispatched account call is rejected: the execute that makes it fails, and
\* a processed batch changes every deposit by exactly what it debited, so
\* nothing is withdrawn between validation and settlement; and an account is
\* not re-entered through execute or executeBatch while one of its calls is
\* in progress: an execute that calls its own account's execute or
\* executeBatch fails, such an entry of executeBatch is reported failed, and
\* a batch that asks for nothing else leaves the account's funds alone.
C35_ReentrantCallsRejected ==
    [][/\ (last'.tx = "handleOps" /\ last'.status = "ok") =>
            /\ \A a \in Addr :
                  deposits'[a] = deposits[a]
                                    - DebitedBefore(last'.debits, a, Len(last'.debits) + 1)
            /\ \A i \in 1..Len(last'.ops) :
                  LET op == last'.ops[i]
                      cd == op.callData
                  IN  /\ (/\ cd.fn = "execute"
                          /\ last'.calls[i] # "reverted"
                          /\ \/ ReentersEntryPoint(cd.target, cd.data)
                             \/ ReentersAccount(op.sender, cd.target, cd.data))
                         => last'.calls[i] = "failed"
                      /\ (/\ cd.fn = "executeBatch"
                          /\ \A k \in 1..Len(cd.targets) :
                                ReentersAccount(op.sender, cd.targets[k], cd.datas[k]))
                         => balance'[op.sender] = balance[op.sender]
       /\ (/\ last'.tx = "execute"
           /\ ReentersAccount(last'.args[1], last'.args[3], last'.args[5]))
            => last'.status = "reverted"
       /\ (last'.tx = "executeBatch" /\ last'.status = "ok") =>
            \A k \in 1..Len(last'.args[3]) :
                ReentersAccount(last'.args[1], last'.args[3][k], last'.args[5][k])
                    => ~last'.returned[k]
      ]_vars

\* a processed batch whose operation asked the EntryPoint for a withdrawal
\* that the selector whitelist, the account's deposit and the EntryPoint's
\* funds all allowed: the call failed
C35_Witness ==
    /\ last.tx = "handleOps" /\ last.status = "ok"
    /\ Len(last.ops) = 1
    /\ last.ops[1].callData.fn = "execute"
    /\ last.ops[1].callData.target = EP
    /\ last.ops[1].callData.data = <<WITHDRAWTO_SEL, O2, 1>>
    /\ WITHDRAWTO_SEL \in whitelistedFunctions[W1]
    /\ last.calls = <<"failed">>
    /\ deposits[W1] >= 1
    /\ balance[EP] >= 1

(***************************************************************************)
(* Properties of the authorization of executed operations                  *)
(***************************************************************************)
\* the world in which handleOps, started on w, dispatches the call of
\* operation i: the one the execution loop has left after operations 1..i-1
WorldAtDispatch(w, ops, env, gasPrice, i) ==
    ExecutionPhase([w |-> Enter(w, EP), events |-> <<>>, calls |-> <<>>,
                    debits |-> <<>>, collected |-> 0, panic |-> FALSE],
                   SubSeq(ops, 1, i - 1),
                   [k \in 1..(i - 1) |-> ValidateOp(w, ops[k])],
                   SubSeq(env, 1, i - 1), gasPrice, 1).w

\* C36 (as claimed): when the call of operation i of a processed batch is
\* dispatched, the signer recovered for operation i is op.sender or an
\* authorized signer of the sender account in the state of that moment
C36_AuthorizedWhenExecuted ==
    [][(last'.tx = "handleOps" /\ last'.status = "ok") =>
          \A i \in 1..Len(last'.ops) :
              SignerAccepted(WorldAtDispatch(World, last'.ops, last'.env,
                                             last'.gasPrice, i),
                             last'.ops[i])
      ]_vars

(***************************************************************************)
(* Properties of the account's owner                                       *)
(***************************************************************************)
\* C37 (as claimed): the current owner of every initialized account is a
\* member of its authorized-signer set
C37_OwnerIsAuthorizedSigner ==
    \A wallet \in Deployed : owner[wallet] \in authorizedSigners[wallet]

\* C38: a transferOwnership(newOwner) that succeeds sets the owner field of
\* the account to newOwner and adds newOwner to its authorized signers, and
\* changes nothing else: every other signer, the previous owner included,
\* keeps its authorization, and the whitelist, the counter, the trusted
\* entry point, the other accounts, every balance and every deposit stay as
\* they were; so the EntryPoint's signer check still accepts the previous
\* owner for the account if it did before
C38_TransferOwnershipFrame ==
    [][(last'.tx = "transferOwnership" /\ last'.status = "ok") =>
          LET wallet == last'.args[1]
              previous == last'.args[2]
              newOwner == last'.args[3]
          IN  /\ previous = owner[wallet]
              /\ owner' = [owner EXCEPT ![wallet] = newOwner]
              /\ authorizedSigners' =
                    [authorizedSigners EXCEPT ![wallet] = @ \cup {newOwner}]
              /\ UNCHANGED <<whitelistedFunctions, nonce, entryPoint, code, balance,
                             deposits, walletWhitelisted, supportedTokens,
                             tokenExchangeRate, userDeposits, userTokenBalances,
                             tokenBalanceOf>>
              /\ _isValidSigner(World, wallet, previous) = "valid"
                    => _isValidSigner(World', wallet, previous) = "valid"
      ]_vars

\* the owner o1 has handed the account to o2 and is still an authorized
\* signer whom the EntryPoint's signer check accepts
C38_Witness ==
    /\ last.tx = "transferOwnership" /\ last.status = "ok"
    /\ last.args = <<W1, O1, O2>>
    /\ owner[W1] = O2
    /\ {O1, O2} \subseteq authorizedSigners[W1]
    /\ _isValidSigner(World, W1, O1) = "valid"

(***************************************************************************)
(* Properties of the custody of deposited tokens                           *)
(***************************************************************************)
\* C39 (as claimed): in every reachable state, every caller can withdraw
\* every amount of a token up to its recorded token balance at the sponsor
C39_DepositorCanWithdraw ==
    \A caller \in Addr, token \in Tokens :
        \A amount \in 1..userTokenBalances[caller][token] :
            withdrawTokens(World, caller, token, amount).ok

====
